---- MODULE Spec2Model ----
(***************************************************************************)
(* A model of the VAS report scripts (scripts/create_charts.py): the       *)
(* identifier ordering, the spread metric, the colour assignment, the      *)
(* report renderers create_chart_case_01/02/03, and the process main()     *)
(* runs under run_script of scripts/one_click_vas.py.                      *)
(*                                                                         *)
(* Identifiers (run ids, spot, pallette and row numbers) are Python        *)
(* strings; they are modelled as sequences of one-character strings so     *)
(* that int() and string comparison are computed, not assumed.             *)
(* Offsets are floats; they are modelled as exact integers counting        *)
(* tenths (0.1 is 1, 999.0 is 9990), with a separate not-a-number value.   *)
(***************************************************************************)
EXTENDS Integers, Sequences, FiniteSets, TLC

VARIABLES
    \* ---- the report invocation create_chart_case_0N(grid, spread_method)
    caseNo,             \* which renderer runs: 1, 2 or 3
    grid,               \* the grid argument
    spread_method,      \* the spread_method argument (cases 02 and 03)
    csv,                \* rows of data/views/view_case_0N.csv, cells as text
    params,             \* parameters.yaml
    seed,               \* spotnumber_colors.csv
    pc,                 \* position in the renderer
    error,              \* the exception that ended the renderer, or "none"
    df,                 \* the working DataFrame
    spot_colors,        \* spot_colors / row_colors
    unique_spots,       \* unique_spots / unique_rows
    runs,               \* runs
    subs,               \* spots (case 01) or pallettes (cases 02, 03)
    ri, si,             \* positions of the run and sub-group loops
    html,               \* the html list
    run_html,           \* the run_html list of the current run
    run_spread_values,  \* run_spread_values of the current run
    scatterCalls,       \* every ax.scatter call made so far
    spreadCalls,        \* every measure_spread call made so far
    outFile,            \* content of the report files on disk, by file
    figs,               \* the matplotlib figures: open now, most open at once
    \* ---- the process `python create_charts.py` under run_script
    views,              \* the three view files main() renders
    returncode,         \* exit status of the process, -1 while it runs
    log,                \* what run_script has logged
    \* ---- a call of sorted(ids, key=safe_int_sort_key)
    sortIn, sortOut,
    \* ---- a call of measure_spread(x, y, method, percentile)
    mx, my, mmethod, mpct, mresult,
    \* ---- the colour tables of a grid and a sequential invocation
    ccase, ckeys, tblGrid, tblSeq,
    \* ---- a lookup table.get(key, '#000000')
    ltable, lkey, lcolor,
    \* ---- a call of unify_printing_files / unify_run_parameters_files
    unifier,            \* which of the two functions runs
    csv_files,          \* the files glob found, in glob's order
    fi,                 \* position of the loop over csv_files
    all_dfs,            \* all_dfs
    unified_csv,        \* the output file on disk
    upc,                \* position in the function
    \* ---- a call of create_cassette_table
    xlsx_files,         \* the workbooks glob found
    wi,                 \* position of the loop over xlsx_files
    col_pairs, ci,      \* col_pairs of the current sheet, position in it
    row,                \* row of the while loop
    cassette_rows,      \* cassette_rows
    cassette_csv,       \* the output file on disk
    cpc,                \* position in the function
    \* ---- one_click_vas.main
    script_outcome,     \* how each launched script will end
    opc,                \* position in main / run_script
    si_script,          \* which run_script call is active
    launched,           \* the subprocesses started so far
    finished,           \* the subprocesses that have terminated
    oc_log              \* what the logger has written

pipeVars == <<caseNo, grid, spread_method, csv, params, seed, pc, error, df,
              spot_colors, unique_spots, runs, subs, ri, si, html, run_html,
              run_spread_values, scatterCalls, spreadCalls, outFile, figs>>
mainVars == <<views, returncode, log>>
sortVars == <<sortIn, sortOut>>
spreadVars == <<mx, my, mmethod, mpct, mresult>>
colorVars == <<ccase, ckeys, tblGrid, tblSeq>>
lookupVars == <<ltable, lkey, lcolor>>
unifyVars == <<unifier, csv_files, fi, all_dfs, unified_csv, upc>>
cassetteVars == <<xlsx_files, wi, col_pairs, ci, row, cassette_rows,
                  cassette_csv, cpc>>
launchVars == <<script_outcome, opc, si_script, launched, finished, oc_log>>
procVars == <<unifyVars, cassetteVars, launchVars>>
vars == <<pipeVars, mainVars, sortVars, spreadVars, colorVars, lookupVars,
          procVars>>

None == "none"

(***************************************************************************)
(* Text: int(x), str(n) and the < of Python strings.                       *)
(***************************************************************************)
DigitChars == <<"0", "1", "2", "3", "4", "5", "6", "7", "8", "9">>
Digits == {DigitChars[i] : i \in 1..10}
DigitVal(c) == (CHOOSE i \in 1..10 : DigitChars[i] = c) - 1

\* ord(c) for the characters identifiers are written with
CharCode(c) ==
    IF c \in Digits THEN 48 + DigitVal(c)
    ELSE CASE c = "A" -> 65 [] c = "B" -> 66 [] c = "a" -> 97 [] c = "n" -> 110

\* int(x) succeeds on a non-empty string of decimal digits
IsIntText(s) == Len(s) > 0 /\ \A i \in 1..Len(s) : s[i] \in Digits

RECURSIVE IntOf(_)
IntOf(s) ==
    IF Len(s) = 0 THEN 0
    ELSE 10 * IntOf(SubSeq(s, 1, Len(s) - 1)) + DigitVal(s[Len(s)])

RECURSIVE StrOfNat(_)
StrOfNat(n) ==
    IF n < 10 THEN <<DigitChars[n + 1]>>
    ELSE StrOfNat(n \div 10) \o <<DigitChars[(n % 10) + 1]>>

\* a < b for two Python strings
RECURSIVE StrLess(_, _)
StrLess(a, b) ==
    IF Len(b) = 0 THEN FALSE
    ELSE IF Len(a) = 0 THEN TRUE
    ELSE IF CharCode(a[1]) # CharCode(b[1]) THEN CharCode(a[1]) < CharCode(b[1])
    ELSE StrLess(Tail(a), Tail(b))

(***************************************************************************)
(* Sorting.  A sort key is <<priority, integer, string>>: Python's         *)
(* (0, int(x)) is <<0, int(x), <<>>>> and (1, str(x)) is <<1, 0, x>>.      *)
(***************************************************************************)
safe_int_sort_key_lexical(x) == <<1, 0, x>>

safe_int_sort_key(x) ==
    IF IsIntText(x) THEN <<0, IntOf(x), <<>> >> ELSE <<1, 0, x>>

\* the key=lambda x: int(x) of the category sorts; defined when int(x) is
int_key(x) == <<0, IntOf(x), <<>> >>

\* tuple comparison k1 < k2
KeyLess(k1, k2) ==
    \/ k1[1] < k2[1]
    \/ /\ k1[1] = k2[1]
       /\ IF k1[1] = 0 THEN k1[2] < k2[2] ELSE StrLess(k1[3], k2[3])

\* sorted() is stable: an element goes after every element not greater
RECURSIVE InsertByKey(_, _)
InsertByKey(p, s) ==
    IF s = <<>> THEN <<p>>
    ELSE IF KeyLess(p[1], Head(s)[1]) THEN <<p>> \o s
    ELSE <<Head(s)>> \o InsertByKey(p, Tail(s))

RECURSIVE SortPairs(_)
SortPairs(ps) ==
    IF ps = <<>> THEN <<>>
    ELSE InsertByKey(ps[Len(ps)], SortPairs(SubSeq(ps, 1, Len(ps) - 1)))

\* sorted(ids, key=safe_int_sort_key)
SortedRuns(ids) ==
    LET ps == SortPairs([i \in 1..Len(ids) |-> <<safe_int_sort_key(ids[i]), ids[i]>>])
    IN  [i \in 1..Len(ids) |-> ps[i][2]]

\* sorted(ids, key=lambda x: int(x)): the key is computed for every element, so
\* one id that is no integer raises ValueError (ok is FALSE)
SortedByInt(ids) ==
    IF \E i \in 1..Len(ids) : ~IsIntText(ids[i]) THEN [ok |-> FALSE, out |-> <<>>]
    ELSE LET ps == SortPairs([i \in 1..Len(ids) |-> <<int_key(ids[i]), ids[i]>>])
         IN  [ok |-> TRUE, out |-> [i \in 1..Len(ids) |-> ps[i][2]]]

\* Series.unique(): the distinct values, in order of first appearance; the
\* working table is a set of rows, so the order of appearance is some order
RECURSIVE SetToSeq(_)
SetToSeq(S) ==
    IF S = {} THEN <<>>
    ELSE LET x == CHOOSE x \in S : TRUE IN <<x>> \o SetToSeq(S \ {x})

Range(s) == {s[i] : i \in 1..Len(s)}

(***************************************************************************)
(* Numbers.  An offset is [nan, v]: v tenths, or not-a-number.  A spread   *)
(* value is [nan, num, den]: the non-negative number whose square is       *)
(* num/den (in tenths squared), or not-a-number.                           *)
(***************************************************************************)
NaN == [nan |-> TRUE, v |-> 0]
Num(n) == [nan |-> FALSE, v |-> n]

\* the value 999.0 that marks "no measurement", in tenths
Sentinel == 9990

\* the cell texts float() reads, with their values in tenths
NumericCells ==
    { <<"0.0", 0>>, <<"0.1", 1>>, <<"-0.1", -1>>, <<"0.2", 2>>, <<"0.3", 3>>,
      <<"0.4", 4>>, <<"999", Sentinel>>, <<"999.0", Sentinel>> }

\* pd.to_numeric(cell, errors='coerce'): any other text, and a missing cell,
\* become NaN
to_numeric(cell) ==
    IF \E p \in NumericCells : p[1] = cell
    THEN Num((CHOOSE p \in NumericCells : p[1] = cell)[2])
    ELSE NaN

FloatNaN == [nan |-> TRUE, num |-> 0, den |-> 1]

RECURSIVE GCD(_, _)
GCD(a, b) == IF b = 0 THEN a ELSE GCD(b, a % b)

\* the number sqrt(num/den), num >= 0, den > 0, in lowest terms
Root(num, den) ==
    LET g == GCD(num, den)
    IN  IF num = 0 THEN [nan |-> FALSE, num |-> 0, den |-> 1]
        ELSE [nan |-> FALSE, num |-> num \div g, den |-> den \div g]

\* 2 * value
Times2(s) == IF s.nan THEN FloatNaN ELSE Root(4 * s.num, s.den)

Abs(n) == IF n < 0 THEN -n ELSE n

\* sqrt(x**2 + y**2) of a sample whose radius is a whole number of tenths
Radius(x, y) == CHOOSE r \in 0..(Abs(x) + Abs(y)) : r * r = x * x + y * y

RECURSIVE SeqSum(_)
SeqSum(s) == IF s = <<>> THEN 0 ELSE Head(s) + SeqSum(Tail(s))

SortedInts(s) ==
    LET ps == SortPairs([i \in 1..Len(s) |-> <<<<0, s[i], <<>> >>, s[i]>>])
    IN  [i \in 1..Len(s) |-> ps[i][2]]

\* np.std(r), np.sqrt(np.mean(r**2)), np.percentile(r, percentile) of the
\* radii r (whole tenths); percentile is linear between the closest ranks
\* the deviation of the radii about the origin
StdOf_about_origin(r) == Root(SeqSum([i \in 1..Len(r) |-> r[i] * r[i]]), Len(r))

\* the mean of the radii
RmsOf_mean_radius(r) == Root(SeqSum(r) * SeqSum(r), Len(r) * Len(r))

\* the percentile read from the radii in the order of the samples
PercentileOf_unsorted(r, percentile) ==
    LET n == Len(r)
        pos == percentile * (n - 1)
        lo == pos \div 100
        hi == IF lo + 1 < n THEN lo + 1 ELSE lo
        v == 100 * r[lo + 1] + (pos % 100) * (r[hi + 1] - r[lo + 1])
    IN  Root(v * v, 10000)

StdOf(r) ==
    LET n == Len(r)
    IN  Root(n * SeqSum([i \in 1..n |-> r[i] * r[i]]) - SeqSum(r) * SeqSum(r), n * n)

RmsOf(r) == Root(SeqSum([i \in 1..Len(r) |-> r[i] * r[i]]), Len(r))

PercentileOf(r, percentile) ==
    LET n == Len(r)
        s == SortedInts(r)
        pos == percentile * (n - 1)
        lo == pos \div 100
        hi == IF lo + 1 < n THEN lo + 1 ELSE lo
        v == 100 * s[lo + 1] + (pos % 100) * (s[hi + 1] - s[lo + 1])
    IN  Root(v * v, 10000)

\* lines 274-281: the statistic of a non-empty sample set; a NaN coordinate
\* makes its radius, and with it every statistic, NaN
spread_of_samples(x, y, method, percentile) ==
    IF \E i \in 1..Len(x) : x[i].nan \/ y[i].nan THEN FloatNaN
    ELSE LET r == [i \in 1..Len(x) |-> Radius(x[i].v, y[i].v)]
         IN  CASE method = "std_radius" -> StdOf(r)
               [] method = "rms_radius" -> RmsOf(r)
               [] method = "percentile_radius" -> PercentileOf(r, percentile)
               [] OTHER -> FloatNaN

\* the metric with the caller's factor folded in
measure_spread_doubled(x, y, method, percentile) ==
    IF Len(x) = 0 THEN FloatNaN
    ELSE Times2(spread_of_samples(x, y, method, percentile))

measure_spread_zero_when_empty(x, y, method, percentile) ==
    IF Len(x) = 0 THEN Root(0, 1)
    ELSE spread_of_samples(x, y, method, percentile)

measure_spread(x, y, method, percentile) ==
    IF Len(x) = 0 THEN FloatNaN
    ELSE spread_of_samples(x, y, method, percentile)

(***************************************************************************)
(* Colours.  A palette colour is its hex string; a colour of the HSV       *)
(* branch is to_hex(hsv_to_rgb([h/n, 0.95, 0.95])), kept as the hue h/n    *)
(* with the saturation and the value in hundredths.                        *)
(***************************************************************************)
HexColor(s) == [hex |-> s, h |-> 0, n |-> 0, sat |-> 0, val |-> 0]
HsvColor(i, n) == [hex |-> "hsv", h |-> i, n |-> n, sat |-> 95, val |-> 95]
Black == HexColor("#000000")

\* high_contrast_colors of create_chart_case_01 and create_chart_case_02
high_contrast_colors ==
    << "#FFD700", "#FF0000", "#00FFFF", "#0000FF", "#00FF00", "#FF00FF",
       "#FFA500", "#008000", "#FFC0CB", "#800080", "#A52A2A", "#FF6347" >>

\* high_contrast_colors of create_chart_case_03
high_contrast_colors_03 ==
    << "#0000FF", "#FF0000", "#00FFFF", "#FFD700", "#00FF00", "#FF00FF",
       "#FFA500", "#008000", "#FFC0CB", "#800080", "#A52A2A", "#FF6347" >>

PaletteOf(c) == IF c = 3 THEN high_contrast_colors_03 ELSE high_contrast_colors

\* a draw of n indices with repeats allowed
ShuffleOutcomes_with_repeats(n) ==
    { [i \in 1..n |-> (i - 1 + k) % n] : k \in 0..(n - 1) }
    \cup { [i \in 1..n |-> k] : k \in 0..(n - 1) }

\* np.random.shuffle(color_indices) can leave any arrangement of 0..n-1; the
\* model draws from the n rotations and the exchanges of two positions
ShuffleOutcomes(n) ==
    { [i \in 1..n |-> (i - 1 + k) % n] : k \in 0..(n - 1) }
    \cup
    { [i \in 1..n |-> IF i = a THEN b - 1 ELSE IF i = b THEN a - 1 ELSE i - 1] :
        a \in 1..n, b \in 1..n }

IndexOf(s, x) == CHOOSE i \in 1..Len(s) : s[i] = x

\* if n_spots <= len(high_contrast_colors)
fits_palette_strict(n_spots, palette) == n_spots < Len(palette)

fits_palette(n_spots, palette) == n_spots <= Len(palette)

\* the colour table of the sorted unique keys: dict(zip(keys, colours))
AssignColors_one_short(palette, keys, perm) ==
    [k \in {keys[i] : i \in 1..(Len(keys) - 1)} |-> HexColor(palette[IndexOf(keys, k)])]

\* the assignment laid under the loaded table: a key the seed lists keeps the
\* seed's colour
AssignColors_seed_first(palette, keys, perm) ==
    [k \in Range(keys) |->
        IF k \in DOMAIN seed THEN seed[k]
        ELSE HexColor(palette[IndexOf(keys, k)])]

AssignColors(palette, keys, perm) ==
    IF fits_palette(Len(keys), palette)
    THEN [k \in Range(keys) |-> HexColor(palette[IndexOf(keys, k)])]
    ELSE [k \in Range(keys) |-> HsvColor(perm[IndexOf(keys, k)], Len(keys))]

\* np.random.shuffle runs in the else branch only
ShufflesFor(palette, keys) ==
    IF fits_palette(Len(keys), palette) THEN {<<>>} ELSE ShuffleOutcomes(Len(keys))

\* a lookup whose default is white
ColorOf_white_default(table, key) ==
    IF key \in DOMAIN table THEN table[key] ELSE HexColor("#FFFFFF")

\* spot_colors.get(key, '#000000')
ColorOf(table, key) == IF key \in DOMAIN table THEN table[key] ELSE Black

(***************************************************************************)
(* The report renderers create_chart_case_01 / _02 / _03.                  *)
(***************************************************************************)
\* parameters.yaml values are YAML scalars: <<"int", n>> or <<"str", text>>
PyStr(v) == IF v[1] = "int" THEN StrOfNat(v[2]) ELSE v[2]

\* set(str(s) for s in params.get(name, [])) if params.get(name) else None;
\* None is the empty set here, and `if flt:` is false for both
FilterOf(values) == {PyStr(values[i]) : i \in 1..Len(values)}

\* pd.to_numeric of the two offset columns
Coerce(r) ==
    [r EXCEPT !.XOffset = to_numeric(r.XOffset), !.YOffset = to_numeric(r.YOffset)]

\* mask = (df['XOffset'] != 999.0) & (df['YOffset'] != 999.0); NaN != 999.0
RemoveSentinel_x_only(d) == {r \in d : r.XOffset # Num(Sentinel)}

RemoveSentinel(d) ==
    {r \in d : r.XOffset # Num(Sentinel) /\ r.YOffset # Num(Sentinel)}

\* the column a report colours by, and the column it charts by
KeyOf(c, r) == IF c = 3 THEN r.RowNumber ELSE r.SpotNumber
SubOf(c, r) == IF c = 1 THEN r.SpotNumber ELSE r.pallette_number

\* filters applied whether or not their option is listed
ApplyFilters_empty_excludes(c, d, p) ==
    LET d1 == {r \in d : r.SpotNumber \in FilterOf(p.spot_numbers)}
        d2 == {r \in d1 : r.run_id \in FilterOf(p.run_id)}
        d3 == IF c = 2 THEN {r \in d2 : r.pallette_number \in FilterOf(p.pallette_number)}
              ELSE d2
        d4 == IF c = 3 THEN {r \in d3 : r.RowNumber \in FilterOf(p.row_numbers)} ELSE d3
        d5 == IF c = 3 THEN {r \in d4 : r.cassette_number \in FilterOf(p.cassette_numbers)}
              ELSE d4
    IN  d5

\* "Apply filters"
ApplyFilters(c, d, p) ==
    LET spot_filter == FilterOf(p.spot_numbers)
        run_filter == FilterOf(p.run_id)
        pallette_filter == FilterOf(p.pallette_number)
        row_filter == FilterOf(p.row_numbers)
        cassette_filter == FilterOf(p.cassette_numbers)
        d1 == IF spot_filter # {} THEN {r \in d : r.SpotNumber \in spot_filter} ELSE d
        d2 == IF run_filter # {} THEN {r \in d1 : r.run_id \in run_filter} ELSE d1
        d3 == IF c = 2 /\ pallette_filter # {}
              THEN {r \in d2 : r.pallette_number \in pallette_filter} ELSE d2
        d4 == IF c = 3 /\ row_filter # {}
              THEN {r \in d3 : r.RowNumber \in row_filter} ELSE d3
        d5 == IF c = 3 /\ cassette_filter # {}
              THEN {r \in d4 : r.cassette_number \in cassette_filter} ELSE d4
    IN  d5

\* a mean that leaves the NaN values out
Mean_skip_nan(values) ==
    [nan |-> FALSE, terms |-> SelectSeq(values, LAMBDA v : ~v.nan)]

\* sum(run_spread_values) / len(run_spread_values): NaN as soon as one value
\* is, else the mean of the listed values
Mean(values) ==
    IF \E i \in 1..Len(values) : values[i].nan
    THEN [nan |-> TRUE, terms |-> <<>>]
    ELSE [nan |-> FALSE, terms |-> values]

\* out_file: case_0N.html, or case_0N_grid.html when grid
FileOf(c, g) == <<c, g>>

Elem(tag, run, sub, body) == [tag |-> tag, run |-> run, sub |-> sub, body |-> body]

\* read the view, coerce the offsets, drop the placeholder rows, load the seed
\* colours and the parameters, apply the filters
LoadAndFilter ==
    /\ pc = "start"
    /\ df' = ApplyFilters(caseNo, RemoveSentinel({Coerce(r) : r \in csv}), params)
    /\ spot_colors' = seed
    /\ pc' = "filtered"
    /\ UNCHANGED <<sortVars, spreadVars, colorVars, lookupVars, mainVars, procVars>>
    /\ UNCHANGED <<figs, caseNo, grid, spread_method, csv, params, seed, error,
                   unique_spots, runs, subs, ri, si, html, run_html,
                   run_spread_values, scatterCalls, spreadCalls, outFile>>

\* "After filtering, get unique spot numbers" and the colour table
BuildColors ==
    /\ pc = "filtered"
    /\ LET keys == SortedByInt(SetToSeq({KeyOf(caseNo, r) : r \in df}))
       IN  IF ~keys.ok
           THEN /\ pc' = "failed"
                /\ error' = "ValueError"
                /\ UNCHANGED <<unique_spots, spot_colors>>
           ELSE /\ \E perm \in ShufflesFor(PaletteOf(caseNo), keys.out) :
                       spot_colors' = AssignColors(PaletteOf(caseNo), keys.out, perm)
                /\ unique_spots' = keys.out
                /\ pc' = "colored"
                /\ UNCHANGED error
    /\ UNCHANGED <<sortVars, spreadVars, colorVars, lookupVars, mainVars, procVars>>
    /\ UNCHANGED <<figs, caseNo, grid, spread_method, csv, params, seed, df, runs,
                   subs, ri, si, html, run_html, run_spread_values,
                   scatterCalls, spreadCalls, outFile>>

\* a legend listed from the last key to the first
LegendOf_reversed(keys, table) ==
    [i \in 1..Len(keys) |->
        <<keys[Len(keys) + 1 - i], ColorOf(table, keys[Len(keys) + 1 - i])>>]

\* the legend: one swatch and label per key of unique_spots
LegendOf(keys, table) == [i \in 1..Len(keys) |-> <<keys[i], ColorOf(table, keys[i])>>]

\* filter_parts of create_chart_case_03
FilterParts(p) ==
    (IF FilterOf(p.spot_numbers) # {} THEN <<"Spot">> ELSE <<>>)
    \o (IF FilterOf(p.run_id) # {} THEN <<"Run">> ELSE <<>>)
    \o (IF FilterOf(p.row_numbers) # {} THEN <<"Row">> ELSE <<>>)
    \o (IF FilterOf(p.cassette_numbers) # {} THEN <<"Cassette">> ELSE <<>>)

\* "Prepare output", "Grouping", the legends and the head of the document; the
\* lists spots / rows are sorted from the same column as unique_spots
Prepare ==
    /\ pc = "colored"
    /\ LET rs == SortedRuns(SetToSeq({r.run_id : r \in df}))
           ps == IF caseNo = 1 THEN [ok |-> TRUE, out |-> unique_spots]
                 ELSE SortedByInt(SetToSeq({r.pallette_number : r \in df}))
           head == <<Elem("head", <<>>, <<>>, caseNo)>>
                   \o (IF caseNo = 3 /\ FilterParts(params) # <<>>
                       THEN <<Elem("filters", <<>>, <<>>, FilterParts(params))>> ELSE <<>>)
                   \o <<Elem("circle_legend", <<>>, <<>>, 0),
                        Elem("legend", <<>>, <<>>, LegendOf(unique_spots, spot_colors)),
                        Elem("h1", <<>>, <<>>, grid)>>
                   \o (IF grid
                       THEN <<Elem("table", <<>>, <<>>, 0)>>
                            \o [i \in 1..Len(rs) |-> Elem("th", rs[i], <<>>, 0)]
                       ELSE <<>>)
       IN  IF ~ps.ok
           THEN /\ pc' = "failed"
                /\ error' = "ValueError"
                /\ UNCHANGED <<runs, subs, html, ri, si>>
           ELSE /\ runs' = rs
                /\ subs' = ps.out
                /\ html' = head
                /\ ri' = 1
                /\ si' = 1
                /\ pc' = IF rs = <<>> THEN "rendered"
                         ELSE IF grid THEN "cell" ELSE "run_begin"
                /\ UNCHANGED error
    /\ UNCHANGED <<sortVars, spreadVars, colorVars, lookupVars, mainVars, procVars>>
    /\ UNCHANGED <<figs, caseNo, grid, spread_method, csv, params, seed, df,
                   spot_colors, unique_spots, run_html, run_spread_values,
                   scatterCalls, spreadCalls, outFile>>

\* df[(df['run_id'] == run) & (df[sub column] == sub)]
SubDf(run, sub) == {r \in df : r.run_id = run /\ SubOf(caseNo, r) = sub}

\* the ax.scatter calls of one chart: case 01 plots the sub-group in one call,
\* in the colour of its spot; cases 02 and 03 plot each key that has rows
ScattersOf_seed_colors(run, sub, subdf) ==
    IF caseNo = 1
    THEN {[run |-> run, sub |-> sub, key |-> sub,
           color |-> ColorOf(seed, sub), rows |-> subdf]}
    ELSE {[run |-> run, sub |-> sub, key |-> k,
           color |-> ColorOf(seed, k),
           rows |-> {r \in subdf : KeyOf(caseNo, r) = k}] :
            k \in {KeyOf(caseNo, r) : r \in subdf}}

ScattersOf(run, sub, subdf) ==
    IF caseNo = 1
    THEN {[run |-> run, sub |-> sub, key |-> sub,
           color |-> ColorOf(spot_colors, sub), rows |-> subdf]}
    ELSE {[run |-> run, sub |-> sub, key |-> unique_spots[i],
           color |-> ColorOf(spot_colors, unique_spots[i]),
           rows |-> {r \in subdf : KeyOf(caseNo, r) = unique_spots[i]}] :
            i \in {j \in 1..Len(unique_spots) :
                     \E r \in subdf : KeyOf(caseNo, r) = unique_spots[j]}}

\* the percentile argument is left at its default
default_percentile == 95
\* the radius of the tolerance circle, 0.2, in tenths
tolerance_radius == 2

\* fig, ax = plt.subplots(...): one more figure is open
FigOpen(f) ==
    [open |-> f.open + 1,
     peak |-> IF f.open + 1 > f.peak THEN f.open + 1 ELSE f.peak]

\* a chart that leaves its figure open
FigClose_leak(f) == f

\* plt.close(fig)
FigClose(f) == [f EXCEPT !.open = f.open - 1]

\* one cell of the grid: the chart of (subs[si], runs[ri]), untitled
GridCell ==
    /\ pc = "cell"
    /\ LET run == runs[ri]
           sub == subs[si]
           subdf == SubDf(run, sub)
           calls == ScattersOf(run, sub, subdf)
           chart == [title |-> <<>>, scatters |-> calls, circles |-> {}]
           last == ri = Len(runs)
       IN  /\ scatterCalls' = scatterCalls \cup calls
           /\ html' = html
                \o (IF ri = 1 THEN <<Elem("tr", <<>>, sub, 0)>> ELSE <<>>)
                \o <<Elem("img", run, sub, chart)>>
                \o (IF last THEN <<Elem("/tr", <<>>, sub, 0)>> ELSE <<>>)
           /\ ri' = IF last THEN 1 ELSE ri + 1
           /\ si' = IF last THEN si + 1 ELSE si
           /\ pc' = IF last /\ si = Len(subs) THEN "rendered" ELSE "cell"
    /\ figs' = FigClose(FigOpen(figs))
    /\ UNCHANGED <<sortVars, spreadVars, colorVars, lookupVars, mainVars, procVars>>
    /\ UNCHANGED <<caseNo, grid, spread_method, csv, params, seed, error, df,
                   spot_colors, unique_spots, runs, subs, run_html,
                   run_spread_values, spreadCalls, outFile>>

\* for run in runs: the heading of the run's section
RunBegin ==
    /\ pc = "run_begin"
    /\ run_html' = <<Elem("h2", runs[ri], <<>>, 0)>>
    /\ run_spread_values' = <<>>
    /\ si' = 1
    /\ pc' = "chart"
    /\ UNCHANGED <<sortVars, spreadVars, colorVars, lookupVars, mainVars, procVars>>
    /\ UNCHANGED <<figs, caseNo, grid, spread_method, csv, params, seed, error, df,
                   spot_colors, unique_spots, runs, subs, ri, html,
                   scatterCalls, spreadCalls, outFile>>

\* the title text of a sequential chart
MetricText(subdf, spread_value) ==
    IF subdf # {} THEN [text |-> "Std Radius", value |-> spread_value]
    ELSE [text |-> "No data", value |-> FloatNaN]

\* one pass of the inner loop of the sequential layout: an empty sub-group is
\* skipped, any other is charted, measured and titled
SeqChart ==
    /\ pc = "chart"
    /\ si <= Len(subs)
    /\ LET run == runs[ri]
           sub == subs[si]
           subdf == SubDf(run, sub)
           calls == ScattersOf(run, sub, subdf)
           pts == SetToSeq(subdf)
           method == IF caseNo = 1 THEN "std_radius" ELSE spread_method
           spread_value == measure_spread([i \in 1..Len(pts) |-> pts[i].XOffset],
                                          [i \in 1..Len(pts) |-> pts[i].YOffset],
                                          method, default_percentile)
           circle_radius == Times2(spread_value)
           circles == IF subdf # {}
                      THEN {[style |-> "solid", radius |-> circle_radius],
                            [style |-> "dotted",
                             radius |-> Root(tolerance_radius * tolerance_radius, 1)]}
                      ELSE {}
           counts == IF caseNo = 3
                     THEN [i \in 1..Len(unique_spots) |->
                             Cardinality({r \in subdf : r.RowNumber = unique_spots[i]})]
                     ELSE <<>>
           chart == [title |-> <<sub, MetricText(subdf, spread_value), counts>>,
                     scatters |-> calls, circles |-> circles]
       IN  IF subdf = {}
           THEN UNCHANGED <<scatterCalls, spreadCalls, run_spread_values, run_html,
                            figs>>
           ELSE /\ figs' = FigClose(FigOpen(figs))
                /\ scatterCalls' = scatterCalls \cup calls
                /\ spreadCalls' = spreadCalls \cup
                       {[run |-> run, sub |-> sub, rows |-> subdf,
                         method |-> method, value |-> spread_value]}
                /\ run_spread_values' = Append(run_spread_values, spread_value)
                /\ run_html' = Append(run_html, Elem("img", run, sub, chart))
    /\ si' = si + 1
    /\ UNCHANGED <<sortVars, spreadVars, colorVars, lookupVars, mainVars, procVars>>
    /\ UNCHANGED <<caseNo, grid, spread_method, csv, params, seed, pc, error, df,
                   spot_colors, unique_spots, runs, subs, ri, html, outFile>>

\* the end of a run with the average line appended below the charts
RunEnd_write_section ==
    /\ pc = "chart"
    /\ si > Len(subs)
    /\ LET avg == Elem("avg", runs[ri], <<>>, Mean(run_spread_values))
           section == IF run_spread_values # <<>>
                      THEN <<run_html[1], avg>> \o Tail(run_html)
                      ELSE run_html
       IN  /\ html' = html \o section \o <<Elem("hr", runs[ri], <<>>, 0)>>
           /\ outFile' = [outFile EXCEPT ![FileOf(caseNo, grid)] = html']
    /\ ri' = ri + 1
    /\ pc' = IF ri = Len(runs) THEN "rendered" ELSE "run_begin"
    /\ UNCHANGED <<sortVars, spreadVars, colorVars, lookupVars, mainVars, procVars>>
    /\ UNCHANGED <<figs, caseNo, grid, spread_method, csv, params, seed, error, df,
                   spot_colors, unique_spots, runs, subs, si, run_html,
                   run_spread_values, scatterCalls, spreadCalls>>

RunEnd_append_average ==
    /\ pc = "chart"
    /\ si > Len(subs)
    /\ LET avg == Elem("avg", runs[ri], <<>>, Mean(run_spread_values))
           section == IF run_spread_values # <<>>
                      THEN Append(run_html, avg)
                      ELSE run_html
       IN  html' = html \o section \o <<Elem("hr", runs[ri], <<>>, 0)>>
    /\ ri' = ri + 1
    /\ pc' = IF ri = Len(runs) THEN "rendered" ELSE "run_begin"
    /\ UNCHANGED <<sortVars, spreadVars, colorVars, lookupVars, mainVars, procVars>>
    /\ UNCHANGED <<figs, caseNo, grid, spread_method, csv, params, seed, error, df,
                   spot_colors, unique_spots, runs, subs, si, run_html,
                   run_spread_values, scatterCalls, spreadCalls, outFile>>

\* after the inner loop: the average line goes in right below the heading,
\* the separator closes the section, the section joins the document
RunEnd ==
    /\ pc = "chart"
    /\ si > Len(subs)
    /\ LET avg == Elem("avg", runs[ri], <<>>, Mean(run_spread_values))
           section == IF run_spread_values # <<>>
                      THEN <<run_html[1], avg>> \o Tail(run_html)
                      ELSE run_html
       IN  html' = html \o section \o <<Elem("hr", runs[ri], <<>>, 0)>>
    /\ ri' = ri + 1
    /\ pc' = IF ri = Len(runs) THEN "rendered" ELSE "run_begin"
    /\ UNCHANGED <<sortVars, spreadVars, colorVars, lookupVars, mainVars, procVars>>
    /\ UNCHANGED <<figs, caseNo, grid, spread_method, csv, params, seed, error, df,
                   spot_colors, unique_spots, runs, subs, si, run_html,
                   run_spread_values, scatterCalls, spreadCalls, outFile>>

\* the document is closed and written to the report file
WriteReport ==
    /\ pc = "rendered"
    /\ LET doc == html \o (IF grid THEN <<Elem("/table", <<>>, <<>>, 0)>> ELSE <<>>)
                       \o <<Elem("/body", <<>>, <<>>, 0)>>
       IN  /\ html' = doc
           /\ outFile' = [outFile EXCEPT ![FileOf(caseNo, grid)] = doc]
    /\ pc' = "done"
    /\ UNCHANGED <<sortVars, spreadVars, colorVars, lookupVars, mainVars, procVars>>
    /\ UNCHANGED <<figs, caseNo, grid, spread_method, csv, params, seed, error, df,
                   spot_colors, unique_spots, runs, subs, ri, si, run_html,
                   run_spread_values, scatterCalls, spreadCalls>>

(***************************************************************************)
(* Inputs.                                                                 *)
(***************************************************************************)
\* the most rows a view holds
MaxRows == 2
\* the most identifiers handed to one sort
MaxIds == 3
\* the most samples handed to one measure_spread call
MaxSamples == 3
\* the most unique category keys of a colour table
MaxKeys == 13
MaxFiles == 3
MaxCassettes == 2

\* all subsets of U with at most k elements
RECURSIVE UpTo(_, _)
UpTo(U, k) ==
    IF k = 0 THEN {{}}
    ELSE LET smaller == UpTo(U, k - 1)
         IN  smaller \cup {S \cup {x} : S \in smaller, x \in U}

RECURSIVE SeqsUpTo(_, _)
SeqsUpTo(U, k) ==
    IF k = 0 THEN {<<>>}
    ELSE LET shorter == SeqsUpTo(U, k - 1)
         IN  shorter \cup {Append(q, x) : q \in shorter, x \in U}

Row(run, spot, pal, rowno, cas, xy) ==
    [run_id |-> run, SpotNumber |-> spot, pallette_number |-> pal,
     RowNumber |-> rowno, cassette_number |-> cas,
     XOffset |-> xy[1], YOffset |-> xy[2]]

\* identifiers; "nan" is what astype(str) makes of a cell the join left empty
idA1 == <<"A", "1">>
idNan == <<"n", "a", "n">>
id1 == <<"1">>
id2 == <<"2">>
id10 == <<"1", "0">>

\* offset cells: two measurements, a placeholder on either axis, a bad cell
xyNear == <<"0.1", "0.0">>
xyFar == <<"0.3", "0.4">>
xyNoX == <<"999.0", "0.1">>
xyNoY == <<"0.0", "999">>
xyBad == <<"abc", "0.2">>

\* rows a view_case_01.csv is made of (it has no pallette, row or cassette)
ViewRows01 ==
    {Row(r, k, id1, id1, id1, xy) :
        r \in {id2, id10}, k \in {id2, id10}, xy \in {xyNear, xyNoX, xyNoY, xyBad}}
    \cup {Row(idA1, id2, id1, id1, id1, xyNear),
          Row(id2, idNan, id1, id1, id1, xyNear),
          Row(id2, id2, id1, id1, id1, xyFar)}

\* rows a view_case_02.csv is made of
ViewRows02 ==
    {Row(r, k, p, id1, id1, xyNear) :
        r \in {id2, id10}, k \in {id2, id10}, p \in {id1, id2}}
    \cup {Row(id2, id2, id1, id1, id1, xy) : xy \in {xyFar, xyNoX, xyNoY, xyBad}}
    \cup {Row(id10, id10, id2, id1, id1, xyBad),
          Row(id2, id2, idNan, id1, id1, xyNear),
          Row(idA1, id2, id1, id1, id1, xyNear),
          Row(id2, idNan, id1, id1, id1, xyNear)}

\* rows a view_case_03.csv is made of
ViewRows03 ==
    {Row(r, id1, p, k, id1, xyNear) :
        r \in {id2, id10}, k \in {id2, id10}, p \in {id1, id2}}
    \cup {Row(id2, id1, id1, id2, id1, xy) : xy \in {xyFar, xyNoX, xyNoY, xyBad}}
    \cup {Row(id10, id1, id2, id10, id1, xyBad),
          Row(id2, id1, idNan, id2, id1, xyNear),
          Row(idA1, id1, id1, id2, id1, xyNear),
          Row(id2, id1, id1, idNan, id1, xyNear),
          Row(id2, id2, id1, id2, id1, xyFar),
          Row(id2, id1, id1, id2, id2, xyNear)}

ViewRows(c) == CASE c = 1 -> ViewRows01 [] c = 2 -> ViewRows02 [] c = 3 -> ViewRows03

Params(spot, run, pal, rowno, cas) ==
    [spot_numbers |-> spot, run_id |-> run, pallette_number |-> pal,
     row_numbers |-> rowno, cassette_numbers |-> cas]

\* parameters.yaml: no filter; spots; runs; the sub-grouping options
ParamChoices ==
    { Params(<<>>, <<>>, <<>>, <<>>, <<>>),
      Params(<< <<"int", 2>> >>, <<>>, <<>>, <<>>, <<>>),
      Params(<<>>, << <<"int", 2>>, <<"str", idA1>> >>, <<>>, <<>>, <<>>),
      Params(<<>>, <<>>, << <<"int", 1>> >>, << <<"int", 2>> >>, << <<"int", 1>> >>) }

\* (grid, spread_method) of an invocation; case 01 has no spread_method, and
\* the grid layout of cases 02 and 03 does not read it
Invocations(c) ==
    IF c = 1 THEN {<<FALSE, "std_radius">>, <<TRUE, "std_radius">>}
    ELSE {<<FALSE, "std_radius">>, <<TRUE, "std_radius">>,
          <<FALSE, "rms_radius">>, <<FALSE, "percentile_radius">>}

\* spotnumber_colors.csv
SeedTable ==
    (id1 :> HexColor("#1a2b3c")) @@ (id2 :> HexColor("#4d5e6f")) @@
    (id10 :> HexColor("#a1b2c3"))

\* spotnumber_colors.csv, another content of it, and the file with its
\* header only
SeedTables ==
    { SeedTable,
      (id1 :> HexColor("#ffffff")) @@ (id2 :> HexColor("#1a2b3c")) @@
      (<<"3">> :> HexColor("#0000ff")),
      <<>> }

\* the report files a previous run left
PreviousFiles ==
    [f \in {FileOf(c, g) : c \in 1..3, g \in BOOLEAN} |->
        <<Elem("previous", <<>>, <<>>, f[1])>>]

\* no figure was opened yet
NoFigures == [open |-> 0, peak |-> 0]

NotDone == [done |-> FALSE, out |-> <<>>]
Done(v) == [done |-> TRUE, out |-> v]

RendererIdle ==
    /\ caseNo = 0 /\ grid = FALSE /\ spread_method = None /\ csv = {}
    /\ params = Params(<<>>, <<>>, <<>>, <<>>, <<>>) /\ seed = <<>>
    /\ pc = "idle" /\ error = None /\ df = {} /\ spot_colors = <<>>
    /\ unique_spots = <<>> /\ runs = <<>> /\ subs = <<>> /\ ri = 0 /\ si = 0
    /\ html = <<>> /\ run_html = <<>> /\ run_spread_values = <<>>
    /\ scatterCalls = {} /\ spreadCalls = {} /\ outFile = <<>>
    /\ figs = NoFigures
MainIdle == views = <<>> /\ returncode = -1 /\ log = <<>>
LookupIdle == ltable = <<>> /\ lkey = <<>> /\ lcolor = NotDone
SortIdle == sortIn = <<>> /\ sortOut = NotDone
SpreadIdle == mx = <<>> /\ my = <<>> /\ mmethod = None /\ mpct = 0 /\ mresult = NotDone
ColorsIdle == ccase = 0 /\ ckeys = <<>> /\ tblGrid = NotDone /\ tblSeq = NotDone
UnifyIdle ==
    /\ unifier = None /\ csv_files = <<>> /\ fi = 0 /\ all_dfs = <<>>
    /\ unified_csv = <<>> /\ upc = "idle"
CassetteIdle ==
    /\ xlsx_files = <<>> /\ wi = 0 /\ col_pairs = <<>> /\ ci = 0 /\ row = 0
    /\ cassette_rows = <<>> /\ cassette_csv = <<>> /\ cpc = "idle"
LaunchIdle ==
    /\ script_outcome = <<>> /\ opc = "idle" /\ si_script = 0
    /\ launched = <<>> /\ finished = <<>> /\ oc_log = <<>>
ProcIdle == UnifyIdle /\ CassetteIdle /\ LaunchIdle

(***************************************************************************)
(* One invocation of a renderer.                                           *)
(***************************************************************************)
Init ==
    /\ caseNo \in 1..3
    /\ \E inv \in Invocations(caseNo) : grid = inv[1] /\ spread_method = inv[2]
    /\ csv \in UpTo(ViewRows(caseNo), MaxRows)
    /\ params \in ParamChoices
    /\ seed = SeedTable
    /\ pc = "start" /\ error = None /\ df = {} /\ spot_colors = <<>>
    /\ unique_spots = <<>> /\ runs = <<>> /\ subs = <<>> /\ ri = 0 /\ si = 0
    /\ html = <<>> /\ run_html = <<>> /\ run_spread_values = <<>>
    /\ scatterCalls = {} /\ spreadCalls = {} /\ outFile = PreviousFiles
    /\ figs = NoFigures
    /\ MainIdle /\ SortIdle /\ SpreadIdle /\ ColorsIdle /\ LookupIdle /\ ProcIdle

Next ==
    \/ LoadAndFilter
    \/ BuildColors
    \/ Prepare
    \/ GridCell
    \/ RunBegin
    \/ SeqChart
    \/ RunEnd
    \/ WriteReport

Spec == Init /\ [][Next]_vars

\* one invocation of a renderer without filters, over any of the seed tables
InitSeed ==
    /\ caseNo \in 1..3
    /\ \E inv \in Invocations(caseNo) : grid = inv[1] /\ spread_method = inv[2]
    /\ csv \in UpTo(ViewRows(caseNo), MaxRows)
    /\ params = Params(<<>>, <<>>, <<>>, <<>>, <<>>)
    /\ seed \in SeedTables
    /\ pc = "start" /\ error = None /\ df = {} /\ spot_colors = <<>>
    /\ unique_spots = <<>> /\ runs = <<>> /\ subs = <<>> /\ ri = 0 /\ si = 0
    /\ html = <<>> /\ run_html = <<>> /\ run_spread_values = <<>>
    /\ scatterCalls = {} /\ spreadCalls = {} /\ outFile = PreviousFiles
    /\ figs = NoFigures
    /\ MainIdle /\ SortIdle /\ SpreadIdle /\ ColorsIdle /\ LookupIdle /\ ProcIdle

SpecSeed == InitSeed /\ [][Next]_vars

(***************************************************************************)
(* The process `python create_charts.py` started by run_script of          *)
(* one_click_vas.py: main() calls the three renderers in turn with their   *)
(* default arguments; an exception that no one handles ends the process.   *)
(***************************************************************************)
\* rows of the views main() reads: run 2, one measurement
MainRows(c) == {r \in ViewRows(c) : r.run_id = id2 /\ r.XOffset = "0.1"}

LogLine(level, text, code) == [level |-> level, text |-> text, code |-> code]

\* a main() that goes on to the next renderer after a failure as well
NextCase_after_failure ==
    /\ pc \in {"done", "failed"}
    /\ caseNo < 3
    /\ caseNo' = caseNo + 1
    /\ csv' = views[caseNo + 1]
    /\ pc' = "start"
    /\ df' = {} /\ spot_colors' = <<>> /\ unique_spots' = <<>>
    /\ runs' = <<>> /\ subs' = <<>> /\ ri' = 0 /\ si' = 0
    /\ html' = <<>> /\ run_html' = <<>> /\ run_spread_values' = <<>>
    /\ UNCHANGED <<sortVars, spreadVars, colorVars, lookupVars, mainVars, procVars>>
    /\ UNCHANGED <<figs, grid, spread_method, params, seed, error, scatterCalls,
                   spreadCalls, outFile>>

\* create_chart_case_0N() has returned; main() calls the next renderer
NextCase ==
    /\ pc = "done"
    /\ caseNo < 3
    /\ caseNo' = caseNo + 1
    /\ csv' = views[caseNo + 1]
    /\ pc' = "start"
    /\ df' = {} /\ spot_colors' = <<>> /\ unique_spots' = <<>>
    /\ runs' = <<>> /\ subs' = <<>> /\ ri' = 0 /\ si' = 0
    /\ html' = <<>> /\ run_html' = <<>> /\ run_spread_values' = <<>>
    /\ UNCHANGED <<sortVars, spreadVars, colorVars, lookupVars, mainVars, procVars>>
    /\ UNCHANGED <<figs, grid, spread_method, params, seed, error, scatterCalls,
                   spreadCalls, outFile>>

\* a process that ends with status 0 whatever happened
ProcessExit_always_zero ==
    /\ pc = "failed" \/ (pc = "done" /\ caseNo = 3)
    /\ returncode' = 0
    /\ pc' = "exited"
    /\ UNCHANGED <<sortVars, spreadVars, colorVars, lookupVars, procVars, views, log>>
    /\ UNCHANGED <<figs, caseNo, grid, spread_method, csv, params, seed, error, df,
                   spot_colors, unique_spots, runs, subs, ri, si, html, run_html,
                   run_spread_values, scatterCalls, spreadCalls, outFile>>

\* main() has returned, or an exception has left it: the interpreter exits
\* with status 0, or prints the traceback and exits with status 1
ProcessExit ==
    /\ pc = "failed" \/ (pc = "done" /\ caseNo = 3)
    /\ returncode' = IF pc = "failed" THEN 1 ELSE 0
    /\ pc' = "exited"
    /\ UNCHANGED <<sortVars, spreadVars, colorVars, lookupVars, procVars, views, log>>
    /\ UNCHANGED <<figs, caseNo, grid, spread_method, csv, params, seed, error, df,
                   spot_colors, unique_spots, runs, subs, ri, si, html, run_html,
                   run_spread_values, scatterCalls, spreadCalls, outFile>>

\* run_script after subprocess.run has returned
RunScriptLog ==
    /\ pc = "exited"
    /\ log' = Append(log, IF returncode = 0
                          THEN LogLine("INFO", "completed successfully", 0)
                          ELSE LogLine("ERROR", "failed with exit code", returncode))
    /\ pc' = "logged"
    /\ UNCHANGED <<sortVars, spreadVars, colorVars, lookupVars, procVars, views, returncode>>
    /\ UNCHANGED <<figs, caseNo, grid, spread_method, csv, params, seed, error, df,
                   spot_colors, unique_spots, runs, subs, ri, si, html, run_html,
                   run_spread_values, scatterCalls, spreadCalls, outFile>>

InitMain ==
    /\ views \in [1..3 -> UNION {UpTo(MainRows(c), 1) : c \in 1..3}]
    /\ \A c \in 1..3 : views[c] \in UpTo(MainRows(c), 1)
    /\ returncode = -1
    /\ log = <<LogLine("INFO", "Running", 0)>>
    /\ caseNo = 1 /\ grid = FALSE /\ spread_method = "std_radius"
    /\ csv = views[1]
    /\ params \in ParamChoices
    /\ seed = SeedTable
    /\ pc = "start" /\ error = None /\ df = {} /\ spot_colors = <<>>
    /\ unique_spots = <<>> /\ runs = <<>> /\ subs = <<>> /\ ri = 0 /\ si = 0
    /\ html = <<>> /\ run_html = <<>> /\ run_spread_values = <<>>
    /\ scatterCalls = {} /\ spreadCalls = {} /\ outFile = PreviousFiles
    /\ figs = NoFigures
    /\ SortIdle /\ SpreadIdle /\ ColorsIdle /\ LookupIdle /\ ProcIdle

NextMain ==
    \/ LoadAndFilter
    \/ BuildColors
    \/ Prepare
    \/ RunBegin
    \/ SeqChart
    \/ RunEnd
    \/ WriteReport
    \/ NextCase
    \/ ProcessExit
    \/ RunScriptLog

SpecMain == InitMain /\ [][NextMain]_vars

(***************************************************************************)
(* sorted(ids, key=safe_int_sort_key) on its own.                          *)
(***************************************************************************)
RunIdChoices ==
    { <<"0", "0", "2">>, <<"0", "1", "0">>, idA1, id2, id10, <<"B">> }

SortRunIds ==
    /\ ~sortOut.done
    /\ sortOut' = Done(SortedRuns(sortIn))
    /\ UNCHANGED <<sortIn, pipeVars, mainVars, spreadVars, colorVars, lookupVars, procVars>>

InitSort ==
    /\ sortIn \in SeqsUpTo(RunIdChoices, MaxIds)
    /\ sortOut = NotDone
    /\ RendererIdle /\ MainIdle /\ SpreadIdle /\ ColorsIdle /\ LookupIdle /\ ProcIdle

SpecSort == InitSort /\ [][SortRunIds]_vars

(***************************************************************************)
(* measure_spread on its own.                                              *)
(***************************************************************************)
\* samples (x, y): whole-tenth radii 0, 1, 1, 2, 3, 5, and a NaN on either axis
SampleChoices ==
    { <<Num(0), Num(0)>>, <<Num(1), Num(0)>>, <<Num(-1), Num(0)>>,
      <<Num(0), Num(2)>>, <<Num(3), Num(0)>>, <<Num(3), Num(4)>>,
      <<NaN, Num(1)>>, <<Num(1), NaN>> }

Measure ==
    /\ ~mresult.done
    /\ mresult' = Done(measure_spread(mx, my, mmethod, mpct))
    /\ UNCHANGED <<mx, my, mmethod, mpct, pipeVars, mainVars, sortVars, colorVars, lookupVars, procVars>>

InitSpread ==
    /\ \E pts \in SeqsUpTo(SampleChoices, MaxSamples) :
          /\ mx = [i \in 1..Len(pts) |-> pts[i][1]]
          /\ my = [i \in 1..Len(pts) |-> pts[i][2]]
    /\ mmethod \in {"std_radius", "rms_radius", "percentile_radius", "median_radius"}
    /\ mpct \in {50, 95, 100}
    /\ mresult = NotDone
    /\ RendererIdle /\ MainIdle /\ SortIdle /\ ColorsIdle /\ LookupIdle /\ ProcIdle

SpecSpread == InitSpread /\ [][Measure]_vars

(***************************************************************************)
(* The colour table of a grid and of a sequential invocation of one        *)
(* renderer over the same filtered rows: ckeys is the unique() of the key  *)
(* column, the integers lo .. lo+n-1 in descending order of appearance.    *)
(***************************************************************************)
KeyColumn(lo, n) == [i \in 1..n |-> StrOfNat(lo + n - i)]

\* lines 103-133 of an invocation: sort the unique keys, build the table
ColorTable(c, keys, perm) == AssignColors(PaletteOf(c), SortedByInt(keys).out, perm)

ColorsGrid ==
    /\ ~tblGrid.done
    /\ SortedByInt(ckeys).ok
    /\ \E perm \in ShufflesFor(PaletteOf(ccase), SortedByInt(ckeys).out) :
          tblGrid' = Done(ColorTable(ccase, ckeys, perm))
    /\ UNCHANGED <<ccase, ckeys, tblSeq, pipeVars, mainVars, sortVars, spreadVars, lookupVars, procVars>>

ColorsSeq ==
    /\ ~tblSeq.done
    /\ SortedByInt(ckeys).ok
    /\ \E perm \in ShufflesFor(PaletteOf(ccase), SortedByInt(ckeys).out) :
          tblSeq' = Done(ColorTable(ccase, ckeys, perm))
    /\ UNCHANGED <<ccase, ckeys, tblGrid, pipeVars, mainVars, sortVars, spreadVars, lookupVars, procVars>>

InitColors ==
    /\ ccase \in 1..3
    /\ \E n \in 0..MaxKeys, lo \in {1, 9} : ckeys = KeyColumn(lo, n)
    /\ tblGrid = NotDone /\ tblSeq = NotDone
    /\ RendererIdle /\ MainIdle /\ SortIdle /\ SpreadIdle /\ LookupIdle /\ ProcIdle

NextColors == ColorsGrid \/ ColorsSeq

SpecColors == InitColors /\ [][NextColors]_vars

(***************************************************************************)
(* table.get(key, '#000000') on its own: the table of a report with up to  *)
(* MaxIds keys, or the seed table, and a key that may not be in it.        *)
(***************************************************************************)
Lookup ==
    /\ ~lcolor.done
    /\ lcolor' = Done(ColorOf(ltable, lkey))
    /\ UNCHANGED <<ltable, lkey, pipeVars, mainVars, sortVars, spreadVars, colorVars,
                   procVars>>

InitLookup ==
    /\ ltable \in {ColorTable(c, KeyColumn(lo, n), <<>>) :
                        c \in {1, 3}, lo \in {1, 9}, n \in 0..MaxIds}
                   \cup {SeedTable}
    /\ lkey \in {id1, id2, id10, idA1, idNan, <<"9">>, <<"9", "9">>}
    /\ lcolor = NotDone
    /\ RendererIdle /\ MainIdle /\ SortIdle /\ SpreadIdle /\ ColorsIdle /\ ProcIdle

SpecLookup == InitLookup /\ [][Lookup]_vars

(***************************************************************************)
(* processing.py: unify_printing_files and unify_run_parameters_files.     *)
(* A DataFrame is its list of columns and its list of rows, a row being a  *)
(* function from column name to cell.                                      *)
(***************************************************************************)
Txt(s) == <<"str", s>>
Table(cols, rows) == [cols |-> cols, rows |-> rows]

\* pd.read_csv(file): a zero-byte or malformed file raises, which the loop
\* catches; a file holding only its header reads as an empty frame
Readable(cols, rows) == [readable |-> TRUE, cols |-> cols, rows |-> rows]

SkippedFile_unreadable_only(content) == ~content.readable

\* the two `continue`s of the loop over csv_files: the read raised, or
\* df.empty (no rows or no columns)
SkippedFile(content) ==
    ~content.readable \/ content.rows = <<>> \/ content.cols = <<>>

\* try: run_id = int(run_id_str[-5:])  except ValueError: run_id = run_id_str
RunIdOf(run_id_str) ==
    LET n == Len(run_id_str)
        last5 == SubSeq(run_id_str, IF n > 5 THEN n - 4 ELSE 1, n)
    IN  IF IsIntText(last5) THEN <<"int", IntOf(last5)>>
        ELSE <<"str", run_id_str>>

\* df.insert(0, 'run_id', run_id)
InsertRunId(t, run_id) ==
    Table(<<"run_id">> \o t.cols,
          [i \in 1..Len(t.rows) |->
              [c \in Range(t.cols) \cup {"run_id"} |->
                  IF c = "run_id" THEN run_id ELSE t.rows[i][c]]])

\* common_cols = set(all_dfs[0].columns); common_cols &= set(df.columns)
CommonCols(dfs) == {c \in Range(dfs[1].cols) : \A i \in 1..Len(dfs) : c \in Range(dfs[i].cols)}

\* list(common_cols): a set has no order of its own, the list may come out in
\* any order
ListsOfSet(S) ==
    {q \in [1..Cardinality(S) -> S] : \A i, j \in 1..Cardinality(S) : q[i] = q[j] => i = j}

\* df[common_cols]
SelectCols(t, cols) ==
    Table(cols, [i \in 1..Len(t.rows) |-> [c \in Range(cols) |-> t.rows[i][c]]])

\* pd.concat(all_dfs, ignore_index=True) of frames with the same columns
RECURSIVE ConcatRows(_)
ConcatRows(dfs) ==
    IF dfs = <<>> THEN <<>>
    ELSE dfs[1].rows \o ConcatRows(Tail(dfs))

\* drop_duplicates(): the first of equal rows stays
RECURSIVE drop_duplicates(_)
drop_duplicates(rows) ==
    IF rows = <<>> THEN <<>>
    ELSE LET before == drop_duplicates(SubSeq(rows, 1, Len(rows) - 1))
             last == rows[Len(rows)]
         IN  IF last \in Range(before) THEN before ELSE Append(before, last)

\* what the folder held before the call
StaleCsv == Table(<<"stale">>, <<>>)

\* one pass of `for file in csv_files`
UnifyReadFile ==
    /\ upc = "read" /\ fi <= Len(csv_files)
    /\ all_dfs' = IF SkippedFile(csv_files[fi].content) THEN all_dfs
                  ELSE Append(all_dfs,
                              InsertRunId(csv_files[fi].content,
                                          RunIdOf(csv_files[fi].run_id_str)))
    /\ fi' = fi + 1
    /\ UNCHANGED <<unifier, csv_files, unified_csv, upc>>
    /\ UNCHANGED <<pipeVars, mainVars, sortVars, spreadVars, colorVars,
                   lookupVars, cassetteVars, launchVars>>

\* after the loop: `if not all_dfs: return`, else restrict, concat, write;
\* only unify_printing_files drops duplicates
UnifyWrite ==
    /\ upc = "read" /\ fi > Len(csv_files)
    /\ IF all_dfs = <<>>
       THEN upc' = "no data" /\ UNCHANGED unified_csv
       ELSE /\ upc' = "written"
            /\ \E common_cols \in ListsOfSet(CommonCols(all_dfs)) :
                 LET unified == ConcatRows([i \in 1..Len(all_dfs) |->
                                    SelectCols(all_dfs[i], common_cols)])
                 IN  unified_csv' =
                         Table(common_cols,
                               IF unifier = "unify_printing_files"
                               THEN drop_duplicates(unified) ELSE unified)
    /\ UNCHANGED <<unifier, csv_files, fi, all_dfs>>
    /\ UNCHANGED <<pipeVars, mainVars, sortVars, spreadVars, colorVars,
                   lookupVars, cassetteVars, launchVars>>

\* the input folders: files that cannot be read, hold a header only, or hold
\* rows under various columns, named by the last part of their file names
CsvFolders ==
    LET contents ==
            { [readable |-> FALSE, cols |-> <<>>, rows |-> <<>>],
              Readable(<<"YOffset">>, <<>>),
              Readable(<<"SpotNumber", "XOffset">>,
                       << [SpotNumber |-> Txt("a"), XOffset |-> Txt("1")],
                          [SpotNumber |-> Txt("a"), XOffset |-> Txt("1")] >>),
              Readable(<<"XOffset", "SpotNumber">>,
                       << [SpotNumber |-> Txt("b"), XOffset |-> Txt("2")] >>),
              Readable(<<"SpotNumber", "XOffset", "YOffset">>,
                       << [SpotNumber |-> Txt("a"), XOffset |-> Txt("1"),
                           YOffset |-> Txt("5")],
                          [SpotNumber |-> Txt("a"), XOffset |-> Txt("1"),
                           YOffset |-> Txt("6")] >>),
              Readable(<<"TaskName">>, << [TaskName |-> Txt("t")] >>) }
        names == { <<"1", "2">>, <<"1", "0", "0", "0", "1", "2">>, idA1 }
        files == {[run_id_str |-> n, content |-> c] : n \in names, c \in contents}
    IN  {q \in SeqsUpTo(files, MaxFiles) :
            \A i, j \in 1..Len(q) : q[i].run_id_str = q[j].run_id_str => i = j}

InitUnify ==
    /\ unifier \in {"unify_printing_files", "unify_run_parameters_files"}
    /\ csv_files \in CsvFolders
    /\ fi = 1 /\ all_dfs = <<>> /\ unified_csv = StaleCsv /\ upc = "read"
    /\ RendererIdle /\ MainIdle /\ SortIdle /\ SpreadIdle /\ ColorsIdle /\ LookupIdle
    /\ CassetteIdle /\ LaunchIdle

NextUnify == UnifyReadFile \/ UnifyWrite

SpecUnify == InitUnify /\ [][NextUnify]_vars

(***************************************************************************)
(* processing.py: create_cassette_table.  A worksheet is the list of its   *)
(* cassette blocks, block k lying in columns 3k-2 (cassette number in row  *)
(* 5, cassette code in row 6, substrate barcodes from row 7) and 3k-1      *)
(* (pallette numbers from row 7); column 3k is the spacer.                 *)
(***************************************************************************)
\* the value of a cell nothing was written to
Empty == <<"none", <<>>>>

Block(number, code, cells) == [number |-> number, code |-> code, cells |-> cells]

\* ws.cell(row=r, column=c).value
CellValue(ws, r, c) ==
    LET k == (c + 2) \div 3
        side == (c - 1) % 3
    IN  IF k > Len(ws) \/ side = 2 \/ r < 5 THEN Empty
        ELSE IF r = 5 THEN (IF side = 0 THEN ws[k].number ELSE Empty)
        ELSE IF r = 6 THEN (IF side = 0 THEN ws[k].code ELSE Empty)
        ELSE IF r - 6 > Len(ws[k].cells) THEN Empty
        ELSE ws[k].cells[r - 6][side + 1]

\* the last row a block reaches
LastRow(ws) ==
    LET lens == {Len(ws[k].cells) : k \in 1..Len(ws)}
    IN  6 + (IF lens = {} THEN 0 ELSE CHOOSE n \in lens : \A o \in lens : o <= n)

\* ws.max_column: the last column that holds a cell, 1 on an empty sheet
max_column(ws) ==
    LET used == {c \in 1..(3 * Len(ws)) :
                    \E r \in 5..LastRow(ws) : CellValue(ws, r, c) # Empty}
    IN  IF used = {} THEN 1 ELSE CHOOSE c \in used : \A o \in used : o <= c

\* [(i, i+1) for i in range(1, stop, 3)]
ColPairs_stop_early(stop) ==
    [n \in 1..(IF stop <= 2 THEN 0 ELSE stop \div 3) |-> <<3 * n - 2, 3 * n - 1>>]

ColPairs(stop) ==
    [n \in 1..(IF stop <= 1 THEN 0 ELSE (stop + 1) \div 3) |-> <<3 * n - 2, 3 * n - 1>>]

\* `not cassette_code`
Falsy(v) == v = Empty \/ v = <<"str", <<>>>> \/ v = <<"int", 0>>

\* try: run = int(run_id_str)  except ValueError: run = run_id_str
RunOf(run_id_str) ==
    IF IsIntText(run_id_str) THEN <<"int", IntOf(run_id_str)>>
    ELSE <<"str", run_id_str>>

\* the sheet of the workbook the loop is at
ActiveSheet == xlsx_files[wi].sheet

\* for xlsx_path in xlsx_files: load the workbook, list col_pairs
CassetteOpen ==
    /\ cpc = "file" /\ wi <= Len(xlsx_files)
    /\ col_pairs' = ColPairs(max_column(ActiveSheet))
    /\ ci' = 1 /\ cpc' = "pair"
    /\ UNCHANGED <<xlsx_files, wi, row, cassette_rows, cassette_csv>>
    /\ UNCHANGED <<pipeVars, mainVars, sortVars, spreadVars, colorVars,
                   lookupVars, unifyVars, launchVars>>

\* for colA, colB in col_pairs: read the code, skip the pair without one
CassettePair ==
    /\ cpc = "pair" /\ ci <= Len(col_pairs)
    /\ IF Falsy(CellValue(ActiveSheet, 6, col_pairs[ci][1]))
       THEN ci' = ci + 1 /\ UNCHANGED <<row, cpc>>
       ELSE row' = 7 /\ cpc' = "scan" /\ UNCHANGED ci
    /\ UNCHANGED <<xlsx_files, wi, col_pairs, cassette_rows, cassette_csv>>
    /\ UNCHANGED <<pipeVars, mainVars, sortVars, spreadVars, colorVars,
                   lookupVars, unifyVars, launchVars>>

\* one pass of `while True`
CassetteScanRow ==
    /\ cpc = "scan"
    /\ LET colA == col_pairs[ci][1]
           colB == col_pairs[ci][2]
           substrate_barcode == CellValue(ActiveSheet, row, colA)
           pallette_number == CellValue(ActiveSheet, row, colB)
       IN  IF substrate_barcode = Empty /\ pallette_number = Empty
           THEN /\ ci' = ci + 1 /\ cpc' = "pair"
                /\ UNCHANGED <<row, cassette_rows>>
           ELSE /\ cassette_rows' =
                     IF substrate_barcode # Empty /\ pallette_number # Empty
                     THEN Append(cassette_rows,
                            [cassette_number |-> CellValue(ActiveSheet, 5, colA),
                             cassette_code |-> CellValue(ActiveSheet, 6, colA),
                             substrate_barcode |-> Txt(PyStr(substrate_barcode)),
                             pallette_number |-> pallette_number,
                             run |-> RunOf(xlsx_files[wi].run_id_str)])
                     ELSE cassette_rows
                /\ row' = row + 1
                /\ UNCHANGED <<ci, cpc>>
    /\ UNCHANGED <<xlsx_files, wi, col_pairs, cassette_csv>>
    /\ UNCHANGED <<pipeVars, mainVars, sortVars, spreadVars, colorVars,
                   lookupVars, unifyVars, launchVars>>

\* col_pairs is exhausted: on to the next workbook
CassetteNextFile ==
    /\ cpc = "pair" /\ ci > Len(col_pairs)
    /\ wi' = wi + 1 /\ cpc' = "file"
    /\ UNCHANGED <<xlsx_files, col_pairs, ci, row, cassette_rows, cassette_csv>>
    /\ UNCHANGED <<pipeVars, mainVars, sortVars, spreadVars, colorVars,
                   lookupVars, unifyVars, launchVars>>

\* after the loop: drop_duplicates and to_csv
CassetteWrite ==
    /\ cpc = "file" /\ wi > Len(xlsx_files)
    /\ cassette_csv' = drop_duplicates(cassette_rows)
    /\ cpc' = "written"
    /\ UNCHANGED <<xlsx_files, wi, col_pairs, ci, row, cassette_rows>>
    /\ UNCHANGED <<pipeVars, mainVars, sortVars, spreadVars, colorVars,
                   lookupVars, unifyVars, launchVars>>

\* the input folders: one workbook of up to MaxCassettes blocks, alone or
\* followed by a second workbook of one block
XlsxFolders ==
    LET b12 == <<"int", 12>>
        bS2 == Txt(<<"S", "2">>)
        n1 == <<"int", 1>>
        n2 == <<"int", 2>>
        code == Txt(<<"C">>)
        blocks ==
            { Block(Empty, Empty, <<>>),
              Block(n1, Empty, << <<b12, n1>> >>),
              Block(n1, code, <<>>),
              Block(n2, code, << <<b12, n1>>, <<bS2, n2>> >>),
              Block(n1, code, << <<b12, Empty>>, <<bS2, n2>> >>),
              Block(n1, code, << <<Empty, n1>>, <<bS2, n2>> >>),
              Block(n1, code, << <<b12, n1>>, <<Empty, Empty>>, <<bS2, n2>> >>),
              Block(n1, code, << <<b12, Empty>> >>),
              Block(n1, code, << <<b12, n1>>, <<b12, n1>> >>) }
        first == {[run_id_str |-> n, sheet |-> sh] :
                     n \in {<<"1", "2">>, <<"B">>},
                     sh \in SeqsUpTo(blocks, MaxCassettes)}
        second == [run_id_str |-> idA1,
                   sheet |-> << Block(n1, code, << <<b12, n1>> >>) >>]
    IN  {<<w>> : w \in first} \cup {<<w, second>> : w \in first}

InitCassette ==
    /\ xlsx_files \in XlsxFolders
    /\ wi = 1 /\ col_pairs = <<>> /\ ci = 0 /\ row = 0
    /\ cassette_rows = <<>> /\ cassette_csv = << [stale |-> TRUE] >>
    /\ cpc = "file"
    /\ RendererIdle /\ MainIdle /\ SortIdle /\ SpreadIdle /\ ColorsIdle /\ LookupIdle
    /\ UnifyIdle /\ LaunchIdle

NextCassette ==
    \/ CassetteOpen
    \/ CassettePair
    \/ CassetteScanRow
    \/ CassetteNextFile
    \/ CassetteWrite

\* the interpreter keeps running the function until it returns
SpecCassette == InitCassette /\ [][NextCassette]_vars /\ WF_vars(NextCassette)

(***************************************************************************)
(* one_click_vas.py: main and run_script.  A launched script is a black    *)
(* box that ends in one of the ways subprocess.run can end.                *)
(***************************************************************************)
\* subprocess.run: the process could not be started (OSError), or it ran to
\* its end and returned a code, or it ran to its end and reading its output
\* raised (UnicodeDecodeError under text=True)
Outcomes ==
    { [started |-> TRUE, raised |-> FALSE, returncode |-> 0],
      [started |-> TRUE, raised |-> FALSE, returncode |-> 1],
      [started |-> TRUE, raised |-> FALSE, returncode |-> 2],
      [started |-> FALSE, raised |-> TRUE, returncode |-> -1],
      [started |-> TRUE, raised |-> TRUE, returncode |-> -1] }

\* the two calls main makes, in its order
Scripts == <<"processing.py", "create_charts.py">>

OcLine(level, text, script, code) ==
    [level |-> level, text |-> text, script |-> script, code |-> code]

\* main: logger.info('--- VAS One-Click Pipeline Started ---')
MainStart ==
    /\ opc = "start"
    /\ oc_log' = Append(oc_log, OcLine("INFO", "Pipeline Started", None, 0))
    /\ si_script' = 1 /\ opc' = "call"
    /\ UNCHANGED <<script_outcome, launched, finished>>
    /\ UNCHANGED <<pipeVars, mainVars, sortVars, spreadVars, colorVars,
                   lookupVars, unifyVars, cassetteVars>>

\* run_script up to subprocess.run: the two log lines, then the launch
RunScriptLaunch ==
    /\ opc = "call"
    /\ oc_log' = oc_log \o
            << OcLine("INFO", "Running", Scripts[si_script], 0),
               OcLine("DEBUG", "Executing", Scripts[si_script], 0) >>
    /\ launched' = Append(launched, Scripts[si_script])
    /\ opc' = IF script_outcome[Scripts[si_script]].started
              THEN "waiting" ELSE "except"
    /\ UNCHANGED <<script_outcome, si_script, finished>>
    /\ UNCHANGED <<pipeVars, mainVars, sortVars, spreadVars, colorVars,
                   lookupVars, unifyVars, cassetteVars>>

\* subprocess.run returns or raises once the child has terminated
ProcessTerminates ==
    /\ opc = "waiting"
    /\ finished' = Append(finished, Scripts[si_script])
    /\ opc' = IF script_outcome[Scripts[si_script]].raised
              THEN "except" ELSE "result"
    /\ UNCHANGED <<script_outcome, si_script, launched, oc_log>>
    /\ UNCHANGED <<pipeVars, mainVars, sortVars, spreadVars, colorVars,
                   lookupVars, unifyVars, cassetteVars>>

\* the rest of the try block: stdout, stderr, and the verdict on returncode
RunScriptResult ==
    /\ opc = "result"
    /\ LET code == script_outcome[Scripts[si_script]].returncode
       IN  oc_log' = oc_log \o
            << OcLine("DEBUG", "STDOUT", Scripts[si_script], 0),
               OcLine("DEBUG", "STDERR", Scripts[si_script], 0),
               IF code = 0
               THEN OcLine("INFO", "completed successfully", Scripts[si_script], 0)
               ELSE OcLine("ERROR", "failed with exit code", Scripts[si_script], code) >>
    /\ opc' = IF si_script < Len(Scripts) THEN "call" ELSE "final"
    /\ si_script' = IF si_script < Len(Scripts) THEN si_script + 1 ELSE si_script
    /\ UNCHANGED <<script_outcome, launched, finished>>
    /\ UNCHANGED <<pipeVars, mainVars, sortVars, spreadVars, colorVars,
                   lookupVars, unifyVars, cassetteVars>>

RunScriptExcept_reraise ==
    /\ opc = "except"
    /\ oc_log' = Append(oc_log, OcLine("ERROR", "Error running", Scripts[si_script], 0))
    /\ opc' = "crashed"
    /\ UNCHANGED <<script_outcome, si_script, launched, finished>>
    /\ UNCHANGED <<pipeVars, mainVars, sortVars, spreadVars, colorVars,
                   lookupVars, unifyVars, cassetteVars>>

\* except Exception as e: logger.error(...), and run_script returns
RunScriptExcept ==
    /\ opc = "except"
    /\ oc_log' = Append(oc_log, OcLine("ERROR", "Error running", Scripts[si_script], 0))
    /\ opc' = IF si_script < Len(Scripts) THEN "call" ELSE "final"
    /\ si_script' = IF si_script < Len(Scripts) THEN si_script + 1 ELSE si_script
    /\ UNCHANGED <<script_outcome, launched, finished>>
    /\ UNCHANGED <<pipeVars, mainVars, sortVars, spreadVars, colorVars,
                   lookupVars, unifyVars, cassetteVars>>

\* main: logger.info('--- All tasks completed. Reports are up to date. ---')
MainComplete ==
    /\ opc = "final"
    /\ oc_log' = Append(oc_log, OcLine("INFO", "All tasks completed", None, 0))
    /\ opc' = "done"
    /\ UNCHANGED <<script_outcome, si_script, launched, finished>>
    /\ UNCHANGED <<pipeVars, mainVars, sortVars, spreadVars, colorVars,
                   lookupVars, unifyVars, cassetteVars>>

InitLaunch ==
    /\ script_outcome \in [Range(Scripts) -> Outcomes]
    /\ opc = "start" /\ si_script = 0
    /\ launched = <<>> /\ finished = <<>> /\ oc_log = <<>>
    /\ RendererIdle /\ MainIdle /\ SortIdle /\ SpreadIdle /\ ColorsIdle /\ LookupIdle
    /\ UnifyIdle /\ CassetteIdle

NextLaunch ==
    \/ MainStart
    \/ RunScriptLaunch
    \/ ProcessTerminates
    \/ RunScriptResult
    \/ RunScriptExcept
    \/ MainComplete

\* the interpreter keeps running main, and every child process ends
SpecLaunch == InitLaunch /\ [][NextLaunch]_vars /\ WF_vars(NextLaunch)

(***************************************************************************)
(* Properties.                                                             *)
(***************************************************************************)
IsSentinelRow(r) == r.XOffset = Num(Sentinel) \/ r.YOffset = Num(Sentinel)

\* C1: in every report, layout and filter configuration, the working table
\* holds no row with 999.0 on either axis from the load on, and no such row
\* is handed to ax.scatter or to measure_spread.
C1_NoSentinelRowUsed ==
    /\ \A r \in df : ~IsSentinelRow(r)
    /\ \A c \in scatterCalls : \A r \in c.rows : ~IsSentinelRow(r)
    /\ \A c \in spreadCalls : \A r \in c.rows : ~IsSentinelRow(r)

\* a finished filtered report whose view held a placeholder on the Y axis and
\* whose charts plotted and measured the remaining rows
C1_Witness ==
    /\ pc = "done"
    /\ \E r \in csv : to_numeric(r.YOffset) = Num(Sentinel)
    /\ params.spot_numbers # <<>>
    /\ \E c \in scatterCalls : c.rows # {}
    /\ spreadCalls # {}

IsInjective(f) == \A a, b \in DOMAIN f : f[a] = f[b] => a = b

\* C2: with at most 12 unique keys the table of an invocation has exactly the
\* unique keys as its domain and gives distinct keys distinct colours.
C2_TableInjective ==
    \A t \in {tblGrid, tblSeq} :
        (t.done /\ Len(ckeys) <= 12) =>
            /\ DOMAIN t.out = Range(ckeys)
            /\ IsInjective(t.out)

\* a table built for 12 keys by the row-coloured report
C2_Witness == tblSeq.done /\ Len(ckeys) = 12 /\ ccase = 3

\* C3: with at most 12 unique keys, the i-th key in ascending order has the
\* i-th colour of yellow, red, cyan, blue, lime, magenta, orange, green, pink,
\* purple, brown, tomato, in cases 01, 02 and 03 alike.
C3_OnePaletteOrder ==
    \A t \in {tblGrid, tblSeq} :
        (t.done /\ Len(ckeys) <= 12) =>
            LET sorted == SortedByInt(ckeys).out
            IN  \A i \in 1..Len(sorted) :
                    t.out[sorted[i]] = HexColor(high_contrast_colors[i])

TableBuilt == pc \in {"colored", "cell", "run_begin", "chart", "rendered", "done"}

LegendEntries ==
    {e \in UNION {Range(html[i].body) : i \in {j \in 1..Len(html) : html[j].tag = "legend"}} : TRUE}

C4_State ==
    /\ ~TableBuilt /\ pc # "failed" => scatterCalls = {} /\ html = <<>>
    /\ TableBuilt => DOMAIN spot_colors = {KeyOf(caseNo, r) : r \in df}
    /\ \A c \in scatterCalls :
          c.key \in DOMAIN spot_colors /\ c.color = spot_colors[c.key]
    /\ \A e \in LegendEntries :
          e[1] \in DOMAIN spot_colors /\ e[2] = spot_colors[e[1]]

C4_Step == spot_colors' # spot_colors => pc \in {"start", "filtered"}

\* C4: the table is built once, from the unique keys of the filtered rows,
\* before anything is drawn, and no later step changes it; every key plotted
\* or listed in the legend is in the table and carries the table's colour.
C4_TableFixed == []C4_State /\ [][C4_Step]_vars

\* a finished report of case 02 whose charts plotted two different keys
C4_Witness ==
    /\ pc = "done" /\ caseNo = 2
    /\ \E a, b \in scatterCalls : a.key # b.key /\ a.rows # {} /\ b.rows # {}
    /\ LegendEntries # {}

\* C5 as stated: the grid and the sequential invocation over the same rows
\* give every key the same colour, whatever the number of keys.
C5_SameColorsAnyCount ==
    (tblGrid.done /\ tblSeq.done) => tblGrid.out = tblSeq.out

\* C5: the grid and the sequential invocation over the same rows give every
\* key the same colour when there are at most 12 unique keys.
C5_SameColorsUpTo12 ==
    (tblGrid.done /\ tblSeq.done /\ Len(ckeys) <= 12) => tblGrid.out = tblSeq.out

\* both invocations have built their table for 12 keys
C5_Witness == tblGrid.done /\ tblSeq.done /\ Len(ckeys) = 12

\* C6: category keys are ordered numerically when they parse and as strings
\* after all numeric keys otherwise, so a report whose rows hold a key that
\* is no integer is still sorted and rendered.
C6_NonNumericKeySorted ==
    /\ pc # "failed"
    /\ TableBuilt => unique_spots = SortedRuns(SetToSeq({KeyOf(caseNo, r) : r \in df}))

Count(s, x) == Cardinality({i \in 1..Len(s) : s[i] = x})

C8_EmptyIsNaN ==
    (mresult.done /\ Len(mx) = 0) => mresult.out = FloatNaN

\* measure_spread has returned for an empty sample set and method rms_radius
C8_Witness == mresult.done /\ Len(mx) = 0 /\ mmethod = "rms_radius"

IsNaNRow(r) == r.XOffset.nan \/ r.YOffset.nan

\* C9: a row with an unparseable offset is never handed to measure_spread,
\* and the spread value of its sub-group is the value of the other rows.
C9_BadRowExcluded ==
    \A c \in spreadCalls :
        /\ \A r \in c.rows : ~IsNaNRow(r)
        /\ LET pts == SetToSeq({r \in c.rows : ~IsNaNRow(r)})
           IN  c.value = measure_spread([i \in 1..Len(pts) |-> pts[i].XOffset],
                                        [i \in 1..Len(pts) |-> pts[i].YOffset],
                                        c.method, default_percentile)

\* C10: in the finished document every (run, sub-group) pair without rows
\* has a chart entry titled "No data", and no such pair was measured for the
\* run average.
C10_NoDataRendered ==
    /\ \A c \in spreadCalls : c.rows # {}
    /\ pc = "done" =>
        \A i \in 1..Len(runs), j \in 1..Len(subs) :
            SubDf(runs[i], subs[j]) = {} =>
                \E k \in 1..Len(html) :
                    /\ html[k].tag = "img"
                    /\ html[k].run = runs[i] /\ html[k].sub = subs[j]
                    /\ html[k].body.title # <<>>
                    /\ html[k].body.title[2].text = "No data"

\* the positions of the charts of a document
Imgs(doc) == {k \in 1..Len(doc) : doc[k].tag = "img"}

\* the method a sequential chart is measured with
MethodOf == IF caseNo = 1 THEN "std_radius" ELSE spread_method

\* the statistic of the rows of one sub-group, from the samples themselves
RawSpread(rows) ==
    LET pts == SetToSeq(rows)
    IN  spread_of_samples([i \in 1..Len(pts) |-> pts[i].XOffset],
                          [i \in 1..Len(pts) |-> pts[i].YOffset],
                          MethodOf, 95)

\* C11: every chart of a sub-group that has rows, in the grid layout as in
\* the sequential one, carries exactly a solid circle of radius 2 x spread
\* and a dotted circle of radius 0.2 (2 tenths).
C11_TwoCircles ==
    \A k \in Imgs(html) :
        LET rows == SubDf(html[k].run, html[k].sub)
        IN  rows # {} =>
              html[k].body.circles =
                  {[style |-> "solid", radius |-> Times2(RawSpread(rows))],
                   [style |-> "dotted", radius |-> Root(2 * 2, 1)]}

\* the charts of the section in progress and of the document
SeqCharts ==
    {run_html[k] : k \in Imgs(run_html)}
    \cup {html[k] : k \in {j \in Imgs(html) : html[j].body.title # <<>>}}

\* C12: measure_spread hands back the statistic itself; the solid circle of a
\* sequential chart has radius 2 x that value, the title shows the value
\* un-doubled, and the values averaged for the run are the un-doubled ones.
C12_FactorAtCaller ==
    /\ \A c \in spreadCalls : c.value = RawSpread(c.rows)
    /\ \A e \in SeqCharts :
          LET raw == RawSpread(SubDf(e.run, e.sub))
          IN  /\ e.body.title[2].value = raw
              /\ \E c \in e.body.circles : c.style = "solid" /\ c.radius = Times2(raw)
              /\ \A c \in e.body.circles : c.style = "solid" => c.radius = Times2(raw)
    /\ pc = "chart" =>
          LET cs == SelectSeq(SubSeq(subs, 1, si - 1),
                              LAMBDA sub : SubDf(runs[ri], sub) # {})
          IN  run_spread_values =
                  [j \in 1..Len(cs) |-> RawSpread(SubDf(runs[ri], cs[j]))]

\* a finished rms report with a chart whose value is 0.5 and whose circle is 1.0
C12_Witness ==
    /\ pc = "done" /\ ~grid /\ spread_method = "rms_radius"
    /\ \E e \in SeqCharts :
          /\ e.body.title[2].value = Root(25, 1)
          /\ [style |-> "solid", radius |-> Root(100, 1)] \in e.body.circles

\* the sub-groups of a run that have rows, in the order they are charted
ChartedSubs(run) == SelectSeq(subs, LAMBDA sub : SubDf(run, sub) # {})

\* sum(values) / len(values), written as the list of its terms
ExpectedMean(values) ==
    IF \E i \in 1..Len(values) : values[i].nan
    THEN [nan |-> TRUE, terms |-> <<>>]
    ELSE [nan |-> FALSE, terms |-> values]

\* C13: the average shown for a run of a sequential report is the mean of the
\* spread values of exactly the run's sub-groups that have rows, one value
\* for each, and every run of a finished report shows one.
C13_RunAverage ==
    /\ \A k \in 1..Len(html) :
          html[k].tag = "avg" =>
              LET cs == ChartedSubs(html[k].run)
              IN  html[k].body =
                    ExpectedMean([j \in 1..Len(cs) |-> RawSpread(SubDf(html[k].run, cs[j]))])
    /\ (pc = "done" /\ ~grid) =>
          \A i \in 1..Len(runs) :
              \E k \in 1..Len(html) : html[k].tag = "avg" /\ html[k].run = runs[i]

\* a finished report whose run has three sub-groups, two of them with rows of
\* different spread
C13_Witness ==
    /\ pc = "done" /\ ~grid /\ Len(subs) >= 2
    /\ \E k \in 1..Len(html) :
          /\ html[k].tag = "avg" /\ ~html[k].body.nan
          /\ Len(html[k].body.terms) = 2
          /\ html[k].body.terms[1] # html[k].body.terms[2]

\* the layout of the sections of a sequential document
C14_Sections ==
    ~grid =>
      /\ \A k \in 1..Len(html) :
            /\ html[k].tag = "h2" =>
                  k < Len(html) /\ html[k + 1].tag = "avg" /\ html[k + 1].run = html[k].run
            /\ html[k].tag = "avg" =>
                  /\ html[k - 1].tag = "h2" /\ html[k - 1].run = html[k].run
                  /\ k < Len(html) /\ html[k + 1].tag = "img"
                  /\ ~html[k].body.nan =>
                        Len(html[k].body.terms) =
                            Cardinality({j \in Imgs(html) : html[j].run = html[k].run})
            /\ html[k].tag \in {"avg", "img"} =>
                  /\ k < Len(html) /\ html[k + 1].tag \in {"img", "hr"}
                  /\ html[k + 1].run = html[k].run
            /\ html[k].tag = "hr" =>
                  /\ html[k - 1].tag = "img" /\ html[k - 1].run = html[k].run
                  /\ k < Len(html) => html[k + 1].tag \in {"h2", "/body"}
      /\ pc = "chart" =>
            /\ \A k \in 1..Len(run_html) : run_html[k].tag # "avg"
            /\ \A k \in 1..Len(html) : html[k].tag = "avg" => html[k].run # runs[ri]

\* the average line enters the document only with the step that ends a run
C14_Step ==
    (\E k \in 1..Len(html') : html'[k].tag = "avg" /\ (k > Len(html) \/ html[k] # html'[k]))
        => (pc = "chart" /\ si > Len(subs))

\* C14: every run section of a sequential document holds exactly one average
\* line, right after the heading and before the first chart; the line is
\* computed when all charts of the run are rendered; the separator ends the
\* section.
C14_AverageBelowHeading == []C14_Sections /\ [][C14_Step]_vars

\* a finished sequential document with two run sections
C14_Witness ==
    /\ pc = "done" /\ ~grid /\ Len(runs) = 2
    /\ \E k, m \in 1..Len(html) :
          /\ html[k].tag = "avg" /\ html[m].tag = "avg" /\ html[k].run # html[m].run
          /\ ~html[k].body.nan

\* the rows some ax.scatter call has drawn
Plotted == UNION {c.rows : c \in scatterCalls}

\* the rows of the view without a placeholder on either axis
SentinelFree == {r \in {Coerce(q) : q \in csv} : ~IsSentinelRow(r)}

\* an absent or empty option admits every identifier
Admits(option, id) == option = <<>> \/ id \in {PyStr(option[i]) : i \in 1..Len(option)}

\* C15 as stated: a placeholder-free row is plotted exactly when every option
\* listed in the configuration whose column the view has admits it; the views
\* of cases 02 and 03 have pallette_number, the view of case 03 has RowNumber
\* and cassette_number.
C15_AllOptionsApplied ==
    pc = "done" =>
        Plotted = {r \in SentinelFree :
                      /\ Admits(params.spot_numbers, r.SpotNumber)
                      /\ Admits(params.run_id, r.run_id)
                      /\ caseNo \in {2, 3} => Admits(params.pallette_number, r.pallette_number)
                      /\ caseNo = 3 => Admits(params.row_numbers, r.RowNumber)
                      /\ caseNo = 3 => Admits(params.cassette_numbers, r.cassette_number)}

\* C15: a placeholder-free row is plotted exactly when every option its
\* report reads admits it: spot_numbers and run_id in all reports,
\* pallette_number in case 02, row_numbers and cassette_numbers in case 03.
C15_ReportOptionsApplied ==
    pc = "done" =>
        Plotted = {r \in SentinelFree :
                      /\ Admits(params.spot_numbers, r.SpotNumber)
                      /\ Admits(params.run_id, r.run_id)
                      /\ caseNo = 2 => Admits(params.pallette_number, r.pallette_number)
                      /\ caseNo = 3 => Admits(params.row_numbers, r.RowNumber)
                      /\ caseNo = 3 => Admits(params.cassette_numbers, r.cassette_number)}

\* a finished report of case 03 under a row filter that kept one row of the
\* view and removed another
C15_Witness ==
    /\ pc = "done" /\ caseNo = 3 /\ params.row_numbers # <<>>
    /\ Plotted # {} /\ Plotted # SentinelFree

\* C16: a lookup of a key the table does not hold returns black, a lookup of
\* a key it holds returns the table's colour; no lookup fails.
C16_DefaultBlack ==
    lcolor.done =>
        /\ lkey \notin DOMAIN ltable => lcolor.out = HexColor("#000000")
        /\ lkey \in DOMAIN ltable => lcolor.out = ltable[lkey]

\* a finished lookup of a key that a table of three keys does not hold
C16_Witness ==
    /\ lcolor.done
    /\ Cardinality(DOMAIN ltable) = 3
    /\ lkey \notin DOMAIN ltable

\* C17: with n > 12 unique keys the table gives each key one of the hues
\* i/n, i = 0..n-1, no hue to two keys and every hue to some key, and each
\* colour is the HSV colour of its hue with saturation and value 0.95.
C17_HueBijection ==
    \A t \in {tblGrid, tblSeq} :
        (t.done /\ Len(ckeys) > 12) =>
            LET n == Len(ckeys)
            IN  /\ DOMAIN t.out = Range(ckeys)
                /\ \A k \in DOMAIN t.out :
                      /\ t.out[k].hex = "hsv" /\ t.out[k].n = n
                      /\ t.out[k].sat = 95 /\ t.out[k].val = 95
                /\ \A a, b \in DOMAIN t.out : t.out[a].h = t.out[b].h => a = b
                /\ {t.out[k].h : k \in DOMAIN t.out} = 0..(n - 1)

\* a table of 13 keys whose first key did not get the first hue
C17_Witness ==
    /\ tblSeq.done /\ Len(ckeys) = 13
    /\ tblSeq.out[SortedByInt(ckeys).out[1]].h # 0

\* the legend blocks of the document
Legends == {k \in 1..Len(html) : html[k].tag = "legend"}

\* C18: the document has one legend; it lists every unique key of the
\* filtered rows once, in ascending order, which is the order the colours
\* were assigned in, and shows for each key the colour the table gives it.
C18_LegendMatchesTable ==
    /\ html # <<>> => Cardinality(Legends) = 1
    /\ \A k \in Legends :
          LET body == html[k].body
          IN  /\ {body[i][1] : i \in 1..Len(body)} = {KeyOf(caseNo, r) : r \in df}
              /\ \A i, j \in 1..Len(body) :
                    i < j => IntOf(body[i][1]) < IntOf(body[j][1])
              /\ \A i \in 1..Len(body) :
                    /\ body[i][1] = unique_spots[i]
                    /\ body[i][2] = spot_colors[body[i][1]]
                    /\ Len(body) <= 12 => body[i][2] = HexColor(PaletteOf(caseNo)[i])

\* a finished report whose legend lists key 2 before key 10
C18_Witness ==
    /\ pc = "done"
    /\ \E k \in Legends :
          /\ Len(html[k].body) = 2
          /\ html[k].body[1][1] = id2 /\ html[k].body[2][1] = id10

\* C20: no more than one figure was ever open at once, and no figure is open
\* between two charts, in the grid and in the sequential layout.
C20_OneFigureLive == figs.peak <= 1 /\ figs.open = 0

\* a finished grid report of at least two charts, each drawn on its figure
C20_Witness ==
    /\ pc = "done" /\ grid
    /\ Cardinality(Imgs(html)) >= 2
    /\ figs.peak = 1

\* how a process that has ended is reported
C19_State ==
    /\ pc \in {"exited", "logged"} => (returncode # 0 <=> error # None)
    /\ (pc = "logged" /\ error # None) =>
          /\ log[Len(log)].level = "ERROR"
          /\ log[Len(log)].code = returncode
    /\ error # None =>
          \A f \in DOMAIN outFile : f[1] >= caseNo => outFile[f] = PreviousFiles[f]

\* a step changes no file but the one of the report it finishes, and no file
\* at all when it fails or follows a failure
C19_Step ==
    /\ \A f \in DOMAIN outFile :
          outFile'[f] # outFile[f] => (pc = "rendered" /\ f = FileOf(caseNo, grid))
    /\ (error # None \/ error' # None) => outFile' = outFile

\* C19: when a renderer fails, create_charts.py exits with a non-zero status,
\* run_script logs the failure as an error, and the report files of the
\* other cases stay as they were when the failure happened.
C19_FailureSurfaced == []C19_State /\ [][C19_Step]_vars

\* case 02 failed after case 01 had written its report: the failure is
\* logged, the report of case 01 is the new one, that of case 03 the old one
C19_Witness ==
    /\ pc = "logged" /\ error # None /\ caseNo = 2
    /\ log[Len(log)].level = "ERROR"
    /\ outFile[FileOf(1, FALSE)] # PreviousFiles[FileOf(1, FALSE)]
    /\ outFile[FileOf(3, FALSE)] = PreviousFiles[FileOf(3, FALSE)]

\* measure_spread has returned for a non-empty set of samples without NaN
MeasuredNumbers ==
    /\ mresult.done /\ Len(mx) > 0
    /\ \A i \in 1..Len(mx) : ~mx[i].nan /\ ~my[i].nan

\* x**2 + y**2 of sample i
SquaredRadius(i) == mx[i].v * mx[i].v + my[i].v * my[i].v

\* C21: with method percentile_radius and percentile 100 the result is the
\* largest radius of the samples.
C21_Percentile100IsMax ==
    (MeasuredNumbers /\ mmethod = "percentile_radius" /\ mpct = 100) =>
        \E i \in 1..Len(mx) :
            /\ mresult.out = Root(SquaredRadius(i), 1)
            /\ \A j \in 1..Len(mx) : SquaredRadius(j) <= SquaredRadius(i)

\* the samples of radii 1, 3, 2 measured at percentile 100: 3
C21_Witness ==
    /\ mresult.done /\ mmethod = "percentile_radius" /\ mpct = 100
    /\ mx = <<Num(1), Num(3), Num(0)>> /\ my = <<Num(0), Num(0), Num(2)>>
    /\ mresult.out = Root(9, 1)

\* C22: with method rms_radius the result is sqrt(mean(x^2 + y^2)), which for
\* a single sample is that sample's radius.
C22_RmsIsRootMeanSquare ==
    (MeasuredNumbers /\ mmethod = "rms_radius") =>
        /\ mresult.out = Root(SeqSum([i \in 1..Len(mx) |-> SquaredRadius(i)]), Len(mx))
        /\ Len(mx) = 1 => mresult.out = Root(SquaredRadius(1), 1)

\* x = [3], y = [4] measured with rms_radius: 5
C22_Witness ==
    /\ mresult.done /\ mmethod = "rms_radius"
    /\ mx = <<Num(3)>> /\ my = <<Num(4)>>
    /\ mresult.out = Root(25, 1)

C24_RunIdFirst == upc = "written" => unified_csv.cols[1] = "run_id"

\* the input files that can be read and hold at least one row
KeptFiles ==
    {i \in 1..Len(csv_files) :
        csv_files[i].content.readable /\ csv_files[i].content.rows # <<>>}
KeptCols ==
    {"run_id"} \cup
    {c \in UNION {Range(csv_files[i].content.cols) : i \in KeptFiles} :
        \A i \in KeptFiles : c \in Range(csv_files[i].content.cols)}
KeptRows ==
    UNION {{[c \in KeptCols |->
                IF c = "run_id" THEN RunIdOf(csv_files[i].run_id_str) ELSE r[c]] :
            r \in Range(csv_files[i].content.rows)} : i \in KeptFiles}

ScannedRows(block) ==
    {i \in 1..Len(block.cells) :
        \A j \in 1..i : block.cells[j] # <<Empty, Empty>>}
\* one row per scanned sheet row holding a barcode and a pallette number, for
\* every block with a cassette code
ExpectedCassetteRows ==
    UNION {UNION {{[cassette_number |-> w.sheet[k].number,
                    cassette_code |-> w.sheet[k].code,
                    substrate_barcode |-> Txt(PyStr(w.sheet[k].cells[i][1])),
                    pallette_number |-> w.sheet[k].cells[i][2],
                    run |-> RunOf(w.run_id_str)] :
                   i \in {i \in ScannedRows(w.sheet[k]) :
                             /\ w.sheet[k].cells[i][1] # Empty
                             /\ w.sheet[k].cells[i][2] # Empty}} :
                  k \in {k \in 1..Len(w.sheet) : w.sheet[k].code # Empty}} :
           w \in Range(xlsx_files)}

C27_ChartsAlwaysLaunchedOnce ==
    /\ [](\E n \in 0..2 : launched = SubSeq(Scripts, 1, n))
    /\ []("create_charts.py" \in Range(launched) =>
            /\ launched[1] = "processing.py"
            /\ script_outcome["processing.py"].started =>
                    "processing.py" \in Range(finished))
    /\ [](opc # "crashed")
    /\ <>[](/\ opc = "done"
            /\ launched = Scripts
            /\ oc_log[Len(oc_log)] = OcLine("INFO", "All tasks completed", None, 0))

\* processing.py could not be started and create_charts.py exited with 1:
\* both were launched, both errors and the final line are in the log
C27_Witness ==
    /\ opc = "done"
    /\ ~script_outcome["processing.py"].started
    /\ script_outcome["create_charts.py"].returncode = 1
    /\ launched = Scripts /\ finished = <<"create_charts.py">>
    /\ \E i, j \in 1..Len(oc_log) :
         /\ i < j
         /\ oc_log[i] = OcLine("ERROR", "Error running", "processing.py", 0)
         /\ oc_log[j] = OcLine("ERROR", "failed with exit code", "create_charts.py", 1)
    /\ oc_log[Len(oc_log)].text = "All tasks completed"

\* the report on disk: untouched until the renderer is done, and then the
\* whole document, with the chart of every sub-group that has rows
C28_State ==
    /\ pc \in {"start", "filtered", "colored", "run_begin", "chart", "rendered",
               "failed"} => outFile = PreviousFiles
    /\ pc = "done" =>
          /\ outFile[FileOf(caseNo, grid)] = html
          /\ html[Len(html)].tag = "/body"
          /\ \A r \in df : \E k \in Imgs(html) :
                html[k].run = r.run_id /\ html[k].sub = SubOf(caseNo, r)
          /\ \A f \in DOMAIN outFile :
                f # FileOf(caseNo, grid) => outFile[f] = PreviousFiles[f]

\* the one step that writes is the last one of the renderer
C28_Step ==
    outFile' # outFile =>
        /\ pc = "rendered" /\ pc' = "done"
        /\ outFile = PreviousFiles

\* C28: a report file is written once, after all its charts are rendered and
\* the document is assembled; when generation fails before, the file of the
\* previous run stays as it was and no partial report exists.
C28_WrittenOnceAtEnd == []C28_State /\ [][C28_Step]_vars

\* a sequential report of two charts, written whole, the other files untouched
C28_Witness ==
    /\ pc = "done" /\ ~grid
    /\ Cardinality(Imgs(outFile[FileOf(caseNo, grid)])) = 2
    /\ outFile[FileOf(caseNo, grid)] # PreviousFiles[FileOf(caseNo, grid)]
    /\ outFile[FileOf(caseNo, ~grid)] = PreviousFiles[FileOf(caseNo, ~grid)]

\* the unique keys of the filtered rows, and the colour the palette of the
\* case gives a key by its rank among them
FilteredKeys == {KeyOf(caseNo, r) : r \in df}
PaletteColor(key) ==
    HexColor(PaletteOf(caseNo)[
        1 + Cardinality({k \in FilteredKeys : IntOf(k) < IntOf(key)})])

\* C29: the content of spotnumber_colors.csv reaches no colour of a report:
\* with at most 12 keys, every colour plotted, listed in the legend or held by
\* the table is fixed by the case and the filtered rows alone, so two
\* generations that differ in the seed table only agree on every colour.
C29_SeedNeverUsed ==
    Cardinality(FilteredKeys) <= Len(PaletteOf(caseNo)) =>
        /\ \A c \in scatterCalls : c.color = PaletteColor(c.key)
        /\ \A e \in LegendEntries : e[2] = PaletteColor(e[1])
        /\ TableBuilt => spot_colors = [k \in FilteredKeys |-> PaletteColor(k)]

\* a finished report that plotted key 2 in the palette's colour, not in the
\* one the seed table lists for it
C29_Witness ==
    /\ pc = "done" /\ seed # SeedTable /\ id2 \in DOMAIN seed
    /\ \E c \in scatterCalls :
         c.key = id2 /\ c.rows # {} /\ c.color # seed[id2]
    /\ \E e \in LegendEntries : e[1] = id2 /\ e[2] # seed[id2]

\* the report of a case main() has not reached is the previous run's, that of
\* a case it has left is this run's, and a failed case has written nothing
C30_State ==
    /\ caseNo \in 1..3
    /\ \A c \in 1..3 :
          /\ c > caseNo => outFile[FileOf(c, FALSE)] = PreviousFiles[FileOf(c, FALSE)]
          /\ c < caseNo => outFile[FileOf(c, FALSE)] # PreviousFiles[FileOf(c, FALSE)]
    /\ error # None =>
          outFile[FileOf(caseNo, FALSE)] = PreviousFiles[FileOf(caseNo, FALSE)]

\* main() moves on by one case, from a renderer that has written its file; a
\* renderer writes the file of its own case only; after a failure no renderer
\* runs and no file changes
C30_Step ==
    /\ caseNo' # caseNo =>
          /\ caseNo' = caseNo + 1
          /\ pc = "done" /\ error = None
          /\ outFile[FileOf(caseNo, FALSE)] = html
    /\ \A f \in DOMAIN outFile :
          outFile'[f] # outFile[f] => f = FileOf(caseNo, FALSE)
    /\ error # None =>
          /\ caseNo' = caseNo /\ outFile' = outFile
          /\ pc' \in {"failed", "exited", "logged"}

\* C30: main() generates the reports in the order case 01, case 02, case 03,
\* each after the one before has written its file; a failure in a case stops
\* the run, and no report of a later case is generated or overwritten.
C30_InOrderUntilFailure == []C30_State /\ [][C30_Step]_vars

\* the third renderer has written its file after the other two wrote theirs
C30_Witness ==
    /\ pc = "done" /\ caseNo = 3 /\ error = None
    /\ \A c \in 1..3 : outFile[FileOf(c, FALSE)] # PreviousFiles[FileOf(c, FALSE)]
    /\ views[3] # {}

====
